---------------------------- MODULE Spec2Model ----------------------------
(***************************************************************************)
(* Model of scripts/validate_structure.py: the structure validator of the  *)
(* storybook repository.  One run loads the character documents, executes  *)
(* ten rules over them, the pages directory and world.yaml, prints a       *)
(* report and ends with an exit status.                                    *)
(*                                                                         *)
(* Strings whose characters the code inspects (file names, page            *)
(* references) are sequences of one-character strings, so that startswith, *)
(* endswith, replace, split, isalpha and isdigit are computed as Python    *)
(* computes them.  Identifiers that are only compared for equality         *)
(* (character ids, node types) are TLA+ strings.                           *)
(***************************************************************************)
EXTENDS Integers, Sequences, FiniteSets, TLC

VARIABLES
    fs,          \* the documents on disk: [chars, pages, world]; never written
    run,         \* 1 for the first run over fs, 2 for the second
    pc,          \* position of main(): "load", "t1".."t10", "summary", "done", "crashed"
    characters,  \* the dict built by load_all_characters, in insertion order
    results,     \* main's results list
    out,         \* the lines printed so far in this run, in order
    exit,        \* the process exit status, -1 while running
    first,       \* the outcome of run 1 once it has ended, else NoRun
    testlist,    \* main's tests list: the rule numbers in the order it runs them
    sync         \* the state of one run of sync-jlfreif.py

vars == <<fs, run, pc, characters, results, out, exit, first, testlist, sync>>

-----------------------------------------------------------------------------
(* Python str operations on sequences of characters *)

Letters ==
    {"a","b","c","d","e","f","g","h","i","j","k","l","m",
     "n","o","p","q","r","s","t","u","v","w","x","y","z"}

Digits == {"0","1","2","3","4","5","6","7","8","9"}

\* s.startswith(p)
StartsWith(s, p) ==
    Len(s) >= Len(p) /\ SubSeq(s, 1, Len(p)) = p

\* s.endswith(p)
EndsWith(s, p) ==
    Len(s) >= Len(p) /\ SubSeq(s, Len(s) - Len(p) + 1, Len(s)) = p

\* c in s, for a single character c
HasChar(s, c) ==
    \E i \in 1..Len(s) : s[i] = c

\* sub in s
HasSub(s, sub) ==
    \E i \in 1..(Len(s) - Len(sub) + 1) : SubSeq(s, i, i + Len(sub) - 1) = sub

\* s.replace(old, ''): every non-overlapping occurrence, left to right
RECURSIVE RemoveAll(_, _)
RemoveAll(s, old) ==
    IF Len(s) < Len(old) THEN s
    ELSE IF StartsWith(s, old) THEN RemoveAll(SubSeq(s, Len(old) + 1, Len(s)), old)
    ELSE <<s[1]>> \o RemoveAll(Tail(s), old)

\* s.split(sep) for a single character sep: always at least one part
RECURSIVE SplitFrom(_, _, _)
SplitFrom(s, sep, cur) ==
    IF s = <<>> THEN <<cur>>
    ELSE IF s[1] = sep THEN <<cur>> \o SplitFrom(Tail(s), sep, <<>>)
    ELSE SplitFrom(Tail(s), sep, Append(cur, s[1]))

Split(s, sep) == SplitFrom(s, sep, <<>>)

\* p.isalpha(): non-empty and every character a letter
IsAlpha(p) ==
    Len(p) > 0 /\ \A i \in 1..Len(p) : p[i] \in Letters

\* p.isdigit(): non-empty and every character a digit
IsDigit(p) ==
    Len(p) > 0 /\ \A i \in 1..Len(p) : p[i] \in Digits

DigitVal(c) ==
    CASE c = "0" -> 0 [] c = "1" -> 1 [] c = "2" -> 2 [] c = "3" -> 3
      [] c = "4" -> 4 [] c = "5" -> 5 [] c = "6" -> 6 [] c = "7" -> 7
      [] c = "8" -> 8 [] OTHER -> 9

\* int(p) for a string of digits
RECURSIVE IntOf(_)
IntOf(p) ==
    IF p = <<>> THEN 0
    ELSE 10 * IntOf(SubSeq(p, 1, Len(p) - 1)) + DigitVal(p[Len(p)])

DotYaml == <<".", "y", "a", "m", "l">>

PagesPrefix == <<"p", "a", "g", "e", "s", "/">>

\* page.replace('.yaml', '').split('-'), then the 2-letter alphabetic parts
CharCodes(page) ==
    SelectSeq(Split(RemoveAll(page, DotYaml), "-"),
              LAMBDA p : Len(p) = 2 /\ IsAlpha(p))

-----------------------------------------------------------------------------
(* Program constants *)

VALID_NODE_TYPES == {"solo", "meeting", "mirrored", "resonant"}

\* a list of solo spreads without the closing two
REQUIRED_SOLO_SPREADS_first == <<1>>

REQUIRED_SOLO_SPREADS == <<1, 11, 12>>

ExpectedPages == 12

-----------------------------------------------------------------------------
(* Printed lines.  A line records its severity (the function that printed  *)
(* it), the message it is an instance of, and the values the message       *)
(* interpolates.                                                           *)

Line(sev, kind, id, name, page, num, codes, val) ==
    [sev |-> sev, kind |-> kind, id |-> id, name |-> name, page |-> page,
     num |-> num, codes |-> codes, val |-> val]

\* error(...), warning(...), success(...), info(...), note(...), print(...)
Error(kind, id, name, page, num, codes, val) ==
    Line("error", kind, id, name, page, num, codes, val)

Warning(kind, id, name, page, num) ==
    Line("warning", kind, id, name, page, num, <<>>, "")

Success(kind, num, num2) ==
    Line("success", kind, "", "", <<>>, num, <<num2>>, "")

Info(kind, id, name, page, nums) ==
    Line("info", kind, id, name, page, 0, nums, "")

Note(kind, num, num2) ==
    Line("note", kind, "", "", <<>>, num, <<num2>>, "")

\* a tests list with the sixth and seventh names exchanged
tests_swapped ==
    <<"At least one character exists",
      "Page formatting is correct",
      "All referenced pages exist",
      "Spreads 1, 11, 12 are character-specific",
      "No stray pages in pages directory",
      "Check for missing pages",
      "Page YAML files are valid",
      "Node types are valid",
      "Scene structure is valid",
      "World interactions are valid">>

\* the names of main's tests list, in its order
tests ==
    <<"At least one character exists",
      "Page formatting is correct",
      "All referenced pages exist",
      "Spreads 1, 11, 12 are character-specific",
      "No stray pages in pages directory",
      "Page YAML files are valid",
      "Check for missing pages",
      "Node types are valid",
      "Scene structure is valid",
      "World interactions are valid">>

\* print(f"\nTesting: {test_name}") for the i-th entry of tests
Header(i) ==
    Line("print", "Testing", "", "", <<>>, i, <<>>, tests[i])

\* What a rule did: the lines it printed, whether it raised an exception
\* that nothing catches, and otherwise the value it returned.
Returned(lines, ret) == [lines |-> lines, raised |-> FALSE, ret |-> ret]

Raised(lines) == [lines |-> lines, raised |-> TRUE, ret |-> FALSE]

-----------------------------------------------------------------------------
(* Documents.                                                              *)
(*   story entry    [str, s]: a str with characters s, or (str = FALSE) a  *)
(*                  scalar of another type whose printed form is s         *)
(*   story          [kind, items]: kind "absent" (no 'story' key), "null"  *)
(*                  (the key holds None) or "list"                         *)
(*   character doc  [kind, id, attrs, name, story]: kind "invalid" (the    *)
(*                  file does not parse), "nonmap" (it parses to something *)
(*                  that is no mapping) or "map"; id "" when the mapping   *)
(*                  has no truthy 'id'; attrs "absent", "null" or "map"    *)
(*   character file [fname, doc]                                           *)

Str(s) == [str |-> TRUE, s |-> s]

NonStr(s) == [str |-> FALSE, s |-> s]

NoStory == [kind |-> "absent", items |-> <<>>]

NullStory == [kind |-> "null", items |-> <<>>]

ListStory(items) == [kind |-> "list", items |-> items]

\* char_info['data'].get('story', []): the default only replaces a missing key
StoryItems(c) == c.story.items

\* iterating the story raises TypeError when it is None
StoryIsNone(c) == c.story.kind = "null"

-----------------------------------------------------------------------------
(* load_all_characters *)

TemplateWord == <<"t", "e", "m", "p", "l", "a", "t", "e">>

ExampleWord == <<"e", "x", "a", "m", "p", "l", "e">>

\* characters_dir.glob('*.yaml')
GlobYaml(files) ==
    SelectSeq(files, LAMBDA f : EndsWith(f.fname, DotYaml))

\* a filter that knows of 'template' only
Usable_template(f) ==
    ~HasSub(f.fname, TemplateWord)

\* the filter of line 75
Usable(f) ==
    ~HasSub(f.fname, TemplateWord) /\ ~HasSub(f.fname, ExampleWord)

\* characters[char_id] = {...}: a new key is appended, an existing key
\* keeps its place and takes the new value
DictPut(d, rec) ==
    IF \E i \in 1..Len(d) : d[i].id = rec.id
    THEN [i \in 1..Len(d) |-> IF d[i].id = rec.id THEN rec ELSE d[i]]
    ELSE Append(d, rec)

\* a loader that goes on to the next file when one does not load
RECURSIVE LoadFiles_skip(_, _)
LoadFiles_skip(files, d) ==
    IF files = <<>> THEN [ok |-> TRUE, lines |-> <<>>, chars |-> d]
    ELSE LET f == Head(files)
         IN IF f.doc.kind # "map" \/ f.doc.id = "" \/ f.doc.attrs = "null"
            THEN LoadFiles_skip(Tail(files), d)
            ELSE LoadFiles_skip(Tail(files),
                                DictPut(d, [id |-> f.doc.id,
                                            file |-> f.fname,
                                            name |-> IF f.doc.attrs = "map"
                                                     THEN f.doc.name ELSE "Unknown",
                                            story |-> f.doc.story]))

\* One pass of the loop of lines 82-95 over the files left.  Any exception
\* of the try block (a parse error, .get on a non-mapping, .get on a None
\* 'attributes') is reported and ends the process.
RECURSIVE LoadFiles(_, _)
LoadFiles(files, d) ==
    IF files = <<>> THEN [ok |-> TRUE, lines |-> <<>>, chars |-> d]
    ELSE LET f == Head(files)
             fails == \/ f.doc.kind # "map"
                      \/ (f.doc.id # "" /\ f.doc.attrs = "null")
         IN IF fails
            THEN [ok |-> FALSE,
                  lines |-> <<Error("Failed to load character file", "", "",
                                    f.fname, 0, <<>>, f.doc.kind)>>,
                  chars |-> <<>>]
            ELSE IF f.doc.id = "" THEN LoadFiles(Tail(files), d)
            ELSE LoadFiles(Tail(files),
                           DictPut(d, [id |-> f.doc.id,
                                       file |-> f.fname,
                                       name |-> IF f.doc.attrs = "map"
                                                THEN f.doc.name ELSE "Unknown",
                                       story |-> f.doc.story]))

\* A failed load is sys.exit(1) after the error line.
load_all_characters(dir) ==
    IF ~dir.exists
    THEN [ok |-> FALSE,
          lines |-> <<Error("Characters directory not found", "", "", <<>>, 0, <<>>, "")>>,
          chars |-> <<>>]
    ELSE LET char_files == SelectSeq(GlobYaml(dir.files), Usable)
         IN IF char_files = <<>>
            THEN [ok |-> FALSE,
                  lines |-> <<Error("No character files found", "", "", <<>>, 0, <<>>, "")>>,
                  chars |-> <<>>]
            ELSE LoadFiles(char_files, <<>>)

-----------------------------------------------------------------------------
(* The rules.  Each takes the loaded characters (and reads the disk) and   *)
(* yields Returned(lines, value) or Raised(lines).                         *)

\* Rule 1
test_at_least_one_character(chars) ==
    IF Len(chars) = 0
    THEN Returned(<<Error("No characters found", "", "", <<>>, 0, <<>>, "")>>, FALSE)
    ELSE Returned(<<Success("Found characters", Len(chars), 0)>>, TRUE)

\* a per-reference check without the test of line 124
FormatErrors_noext(c, page) ==
    (IF StartsWith(page, PagesPrefix)
     THEN <<Error("includes 'pages/' prefix", c.id, c.name, page, 0, <<>>, "")>>
     ELSE <<>>)
    \o
    (IF HasChar(page, "/") \/ HasChar(page, "\\")
     THEN <<Error("contains path separator", c.id, c.name, page, 0, <<>>, "")>>
     ELSE <<>>)

\* Rule 2, lines 118-131 for one page reference
FormatErrors(c, page) ==
    (IF StartsWith(page, PagesPrefix)
     THEN <<Error("includes 'pages/' prefix", c.id, c.name, page, 0, <<>>, "")>>
     ELSE <<>>)
    \o
    (IF ~EndsWith(page, DotYaml)
     THEN <<Error("missing '.yaml' extension", c.id, c.name, page, 0, <<>>, "")>>
     ELSE <<>>)
    \o
    (IF HasChar(page, "/") \/ HasChar(page, "\\")
     THEN <<Error("contains path separator", c.id, c.name, page, 0, <<>>, "")>>
     ELSE <<>>)

RECURSIVE Flat(_)
Flat(ss) ==
    IF ss = <<>> THEN <<>> ELSE Head(ss) \o Flat(Tail(ss))

\* the entries of a story before its first entry that is no str
RECURSIVE StrPrefix(_)
StrPrefix(items) ==
    IF items = <<>> \/ ~Head(items).str THEN <<>>
    ELSE <<Head(items).s>> \o StrPrefix(Tail(items))

AllStr(items) == \A i \in 1..Len(items) : items[i].str

\* The nested loops `for char_id, char_info in characters.items()` /
\* `for page in pages` when the body applies a str method or a path join to
\* page: the (character, page) pairs the body runs on, in order, and
\* whether the walk then raised (a story that is None cannot be iterated, an
\* entry that is no str has no str method).
RECURSIVE Visited(_)
Visited(chars) ==
    IF chars = <<>> THEN [refs |-> <<>>, raised |-> FALSE]
    ELSE LET c == Head(chars)
             pre == StrPrefix(StoryItems(c))
             here == [i \in 1..Len(pre) |-> [c |-> c, page |-> pre[i]]]
         IN IF StoryIsNone(c) THEN [refs |-> <<>>, raised |-> TRUE]
            ELSE IF ~AllStr(StoryItems(c)) THEN [refs |-> here, raised |-> TRUE]
            ELSE LET rest == Visited(Tail(chars))
                 IN [refs |-> here \o rest.refs, raised |-> rest.raised]

\* the outcome of a walk, given the lines its body printed for each pair
PerRef(v, printed) ==
    [lines |-> Flat(printed), raised |-> v.raised, ret |-> TRUE]

HasError(lines) == \E i \in 1..Len(lines) : lines[i].sev = "error"

\* The tail of an errors_found rule: the success line, and `not errors_found`
Finish(w, ok) ==
    IF w.raised THEN Raised(w.lines)
    ELSE IF HasError(w.lines) THEN Returned(w.lines, FALSE)
    ELSE Returned(w.lines \o <<ok>>, TRUE)

test_page_formatting(chars) ==
    LET v == Visited(chars)
        printed == [i \in 1..Len(v.refs) |-> FormatErrors(v.refs[i].c, v.refs[i].page)]
    IN Finish(PerRef(v, printed),
              Success("All page references are properly formatted", 0, 0))

-----------------------------------------------------------------------------
(* The pages directory: [exists, files], files a function from the paths   *)
(* below pages/ that exist to their documents.  A path holding "/" is a    *)
(* file in a subdirectory.                                                 *)
(*   page doc  [kind, node_type, scenes, visual, text]: kind "invalid",    *)
(*             "nonmap" (the file parses to None) or "map"; node_type ""   *)
(*             when the mapping has no truthy 'node_type'; visual, text    *)
(*             tell whether the legacy keys are present                    *)
(*   scenes    [kind, items]: kind "absent", "empty" (present but falsy),  *)
(*             "int" (a truthy scalar without len) or "list"               *)
(*   scene     [map, visual, text, page]: map FALSE for a scalar on which  *)
(*             `in` raises                                                 *)

\* (pages_dir / page).exists()
PageExists(disk, page) ==
    disk.pages.exists /\ page \in DOMAIN disk.pages.files

\* a listing of every direct child, whatever its name
GlobPages_all(disk) ==
    {n \in DOMAIN disk.pages.files : ~HasChar(n, "/")}

\* set(p.name for p in pages_dir.glob('*.yaml')): direct children only
GlobPages(disk) ==
    {n \in DOMAIN disk.pages.files : EndsWith(n, DotYaml) /\ ~HasChar(n, "/")}

\* a check that reports the pages that exist
MissingError_inverted(disk, c, page) ==
    IF PageExists(disk, page)
    THEN <<Error("Referenced page does not exist", c.id, c.name, page, 0, <<>>, "")>>
    ELSE <<>>

\* Rule 3
MissingError(disk, c, page) ==
    IF ~PageExists(disk, page)
    THEN <<Error("Referenced page does not exist", c.id, c.name, page, 0, <<>>, "")>>
    ELSE <<>>

\* an existence rule that looks at nothing
test_pages_exist_lax(chars, disk) ==
    Returned(<<Success("All referenced pages exist", 0, 0)>>, TRUE)

test_pages_exist(chars, disk) ==
    IF ~disk.pages.exists
    THEN Returned(<<Error("Pages directory not found", "", "", <<>>, 0, <<>>, "")>>, FALSE)
    ELSE LET v == Visited(chars)
             printed == [i \in 1..Len(v.refs) |->
                            MissingError(disk, v.refs[i].c, v.refs[i].page)]
         IN Finish(PerRef(v, printed), Success("All referenced pages exist", 0, 0))

\* a then b, unless a raised
Then(a, b) ==
    IF a.raised THEN Raised(a.lines)
    ELSE [lines |-> a.lines \o b.lines, raised |-> b.raised, ret |-> TRUE]

\* a check that rejects every name with a character code
SoloAt_any(c, pos) ==
    LET pages == StoryItems(c)
    IN IF pos - 1 < Len(pages)
       THEN IF ~pages[pos].str THEN Raised(<<>>)
            ELSE LET page == pages[pos].s
                     char_codes == CharCodes(page)
                 IN IF Len(char_codes) >= 1
                    THEN Returned(<<Error("is a joint page", c.id, c.name, page,
                                          pos, char_codes, "")>>, TRUE)
                    ELSE Returned(<<>>, TRUE)
       ELSE Returned(<<>>, TRUE)

\* Rule 4, lines 171-182 for one position of one story
SoloAt(c, pos) ==
    LET pages == StoryItems(c)
    IN IF pos - 1 < Len(pages)
       THEN IF ~pages[pos].str THEN Raised(<<>>)
            ELSE LET page == pages[pos].s
                     char_codes == CharCodes(page)
                 IN IF Len(char_codes) > 1
                    THEN Returned(<<Error("is a joint page", c.id, c.name, page,
                                          pos, char_codes, "")>>, TRUE)
                    ELSE Returned(<<>>, TRUE)
       ELSE Returned(<<>>, TRUE)

RECURSIVE SoloPositions(_, _)
SoloPositions(c, poss) ==
    IF poss = <<>> THEN Returned(<<>>, TRUE)
    ELSE Then(SoloAt(c, Head(poss)), SoloPositions(c, Tail(poss)))

RECURSIVE SoloChars(_)
SoloChars(chars) ==
    IF chars = <<>> THEN Returned(<<>>, TRUE)
    ELSE IF StoryIsNone(Head(chars)) THEN Raised(<<>>)
    ELSE Then(SoloPositions(Head(chars), REQUIRED_SOLO_SPREADS),
              SoloChars(Tail(chars)))

test_no_overlaps_on_required_solo_spreads(chars) ==
    Finish(SoloChars(chars),
           Success("Spreads 1, 11, and 12 are all character-specific", 0, 0))

\* ord() of the characters that occur in file names
Alphabet ==
    <<"-", ".", "/", "0", "1", "2", "3", "4", "5", "6", "7", "8", "9", "\\",
      "a", "b", "c", "d", "e", "f", "g", "h", "i", "j", "k", "l", "m",
      "n", "o", "p", "q", "r", "s", "t", "u", "v", "w", "x", "y", "z">>

Ord(c) == CHOOSE i \in 1..Len(Alphabet) : Alphabet[i] = c

\* a < b for str
RECURSIVE StrLess(_, _)
StrLess(a, b) ==
    IF b = <<>> THEN FALSE
    ELSE IF a = <<>> THEN TRUE
    ELSE IF a[1] = b[1] THEN StrLess(Tail(a), Tail(b))
    ELSE Ord(a[1]) < Ord(b[1])

\* sorted(S) for a set of str
RECURSIVE Sorted(_)
Sorted(S) ==
    IF S = {} THEN <<>>
    ELSE LET m == CHOOSE x \in S : \A y \in S \ {x} : StrLess(x, y)
         IN <<m>> \o Sorted(S \ {m})

AnyStoryIsNone(chars) == \E i \in 1..Len(chars) : StoryIsNone(chars[i])

\* the set built by `s = set()` and `s.update(pages)` for every character
ReferencedPages(chars) ==
    UNION {{StoryItems(chars[i])[j] : j \in 1..Len(StoryItems(chars[i]))} :
           i \in 1..Len(chars)}

\* Rule 5
test_no_stray_pages(chars, disk) ==
    IF ~disk.pages.exists
    THEN Returned(<<Error("Pages directory not found", "", "", <<>>, 0, <<>>, "")>>, FALSE)
    ELSE IF AnyStoryIsNone(chars) THEN Raised(<<>>)
    ELSE LET referenced_pages == ReferencedPages(chars)
             all_page_files == GlobPages(disk)
             stray_pages == {n \in all_page_files : Str(n) \notin referenced_pages}
             stray == Sorted(stray_pages)
         IN IF stray_pages # {}
            THEN Returned(<<Error("Found stray page(s)", "", "", <<>>,
                                  Cardinality(stray_pages), <<>>, "")>>
                          \o [i \in 1..Len(stray) |-> Info("stray", "", "", stray[i], <<>>)],
                          FALSE)
            ELSE Returned(<<Success("No stray pages found", 0, 0)>>, TRUE)

\* Rule 7 (test_missing_pages), lines 234-242: the first all-digit part of
\* every page name that has one
RECURSIVE FirstDigits(_)
FirstDigits(parts) ==
    IF parts = <<>> THEN <<>>
    ELSE IF IsDigit(Head(parts)) THEN <<IntOf(Head(parts))>>
    ELSE FirstDigits(Tail(parts))

PageNumbers(pages) ==
    Flat([i \in 1..Len(pages) |-> FirstDigits(Split(RemoveAll(pages[i], DotYaml), "-"))])

\* a page count check that says nothing about the numbering
MissingPagesOf_quiet(c) ==
    IF StoryIsNone(c) THEN Raised(<<>>)
    ELSE LET pages == StoryItems(c)
             warn == IF Len(pages) # ExpectedPages
                     THEN <<Warning("Has n pages, expected 12", c.id, c.name, <<>>, Len(pages))>>
                     ELSE <<>>
         IN IF ~AllStr(pages) THEN Raised(warn) ELSE Returned(warn, TRUE)

MissingPagesOf(c) ==
    IF StoryIsNone(c) THEN Raised(<<>>)
    ELSE LET pages == StoryItems(c)
             warn == IF Len(pages) # ExpectedPages
                     THEN <<Warning("Has n pages, expected 12", c.id, c.name, <<>>, Len(pages))>>
                     ELSE <<>>
             page_numbers == PageNumbers(StrPrefix(pages))
         IN IF ~AllStr(pages) THEN Raised(warn)
            ELSE IF page_numbers # <<>> /\ page_numbers # [i \in 1..ExpectedPages |-> i]
            THEN Returned(warn \o <<Info("Page numbering is", c.id, c.name, <<>>, page_numbers)>>, TRUE)
            ELSE Returned(warn, TRUE)

RECURSIVE MissingPagesChars(_)
MissingPagesChars(chars) ==
    IF chars = <<>> THEN Returned(<<>>, TRUE)
    ELSE Then(MissingPagesOf(Head(chars)), MissingPagesChars(Tail(chars)))

HasWarning(lines) == \E i \in 1..Len(lines) : lines[i].sev = "warning"

\* a page count rule that returns `not warnings_found`
test_missing_pages_failing(chars) ==
    LET w == MissingPagesChars(chars)
    IN IF w.raised THEN Raised(w.lines)
       ELSE IF HasWarning(w.lines) THEN Returned(w.lines, FALSE)
       ELSE Returned(w.lines \o <<Success("All characters have 12 pages", 0, 0)>>, TRUE)

test_missing_pages(chars) ==
    LET w == MissingPagesChars(chars)
    IN IF w.raised THEN Raised(w.lines)
       ELSE IF HasWarning(w.lines) THEN Returned(w.lines, TRUE)
       ELSE Returned(w.lines \o <<Success("All characters have 12 pages", 0, 0)>>, TRUE)

-----------------------------------------------------------------------------
(* Rules 6, 8 and 9 iterate `all_pages`, a set of str.  The iteration      *)
(* order of such a set is fixed within one process and differs between     *)
(* processes (str hashes are salted), so each rule takes the order as an   *)
(* argument.                                                               *)

RECURSIVE Dedup(_, _)
Dedup(s, seen) ==
    IF s = <<>> THEN <<>>
    ELSE IF Head(s) \in seen THEN Dedup(Tail(s), seen)
    ELSE <<Head(s)>> \o Dedup(Tail(s), seen \cup {Head(s)})

\* the elements of all_pages, listed in the order they were first added
AllPages(chars) ==
    Dedup(Flat([i \in 1..Len(chars) |-> StoryItems(chars[i])]), {})

Rotate(s, k) == [i \in 1..Len(s) |-> s[((i + k - 1) % Len(s)) + 1]]

Reverse(s) == [i \in 1..Len(s) |-> s[Len(s) + 1 - i]]

\* The iteration orders the model draws from: the rotations of the listing
\* and of its reverse.  These are all the orders of a set of up to three
\* elements, and for a larger set they put every element first and last.
Orders(s) ==
    IF s = <<>> THEN {<<>>}
    ELSE {Rotate(s, k) : k \in 0..(Len(s) - 1)}
         \cup {Rotate(Reverse(s), k) : k \in 0..(Len(s) - 1)}

\* a loop that leaves at the first page it printed something for
PageLoop_break(order, printed) ==
    LET n == Len(StrPrefix(order))
        stop == IF \E i \in 1..n : printed[i] # <<>>
                THEN CHOOSE i \in 1..n : printed[i] # <<>> /\ \A j \in 1..(i - 1) : printed[j] = <<>>
                ELSE n
    IN [lines |-> Flat(SubSeq(printed, 1, stop)), raised |-> ~AllStr(order), ret |-> TRUE]

\* `for page in all_pages` with a body that starts with pages_dir / page,
\* which raises TypeError outside the try block when page is no str;
\* printed[i] holds the lines the body prints for order[i]
PageLoop(order, printed) ==
    [lines |-> Flat(SubSeq(printed, 1, Len(StrPrefix(order)))),
     raised |-> ~AllStr(order), ret |-> TRUE]

\* a check that also rejects a file that parses to no mapping
ValidityOf_nonmap(disk, page) ==
    IF PageExists(disk, page) /\ disk.pages.files[page].kind # "map"
    THEN <<Error("is not valid YAML", "", "", page, 0, <<>>, "")>>
    ELSE <<>>

\* Rule 6 (test_page_yaml_validity), lines 267-274
ValidityOf(disk, page) ==
    IF PageExists(disk, page) /\ disk.pages.files[page].kind = "invalid"
    THEN <<Error("is not valid YAML", "", "", page, 0, <<>>, "")>>
    ELSE <<>>

test_page_yaml_validity(chars, disk, order) ==
    IF AnyStoryIsNone(chars) THEN Raised(<<>>)
    ELSE Finish(PageLoop(order, [i \in 1..Len(order) |-> ValidityOf(disk, order[i].s)]),
                Success("All page YAML files are valid", 0, 0))

\* a per-page check without the test of line 316
NodeTypeOf_nomeeting(disk, page) ==
    IF ~PageExists(disk, page) THEN <<>>
    ELSE LET page_data == disk.pages.files[page]
             node_type == page_data.node_type
         IN IF page_data.kind # "map"
            THEN <<Error("Failed to check node_type", "", "", page, 0, <<>>, page_data.kind)>>
            ELSE IF node_type # "" /\ node_type \notin VALID_NODE_TYPES
            THEN <<Error("has invalid node_type", "", "", page, 0, <<>>, node_type)>>
            ELSE <<>>

\* Rule 8 (test_node_types), lines 297-334 for one page.  A file that does
\* not parse, or parses to None, raises inside the try block.
NodeTypeOf(disk, page) ==
    IF ~PageExists(disk, page) THEN <<>>
    ELSE LET page_data == disk.pages.files[page]
             node_type == page_data.node_type
             char_codes == CharCodes(page)
         IN IF page_data.kind # "map"
            THEN <<Error("Failed to check node_type", "", "", page, 0, <<>>, page_data.kind)>>
            ELSE IF node_type # ""
            THEN (IF node_type \notin VALID_NODE_TYPES
                  THEN <<Error("has invalid node_type", "", "", page, 0, <<>>, node_type)>>
                  ELSE <<>>)
                 \o
                 (IF node_type = "meeting" /\ Len(char_codes) < 2
                  THEN <<Error("is marked as meeting node but has only one character code",
                               "", "", page, 0, <<>>, "")>>
                  ELSE <<>>)
                 \o
                 (IF node_type = "solo" /\ Len(char_codes) > 1
                  THEN <<Warning("is marked as solo but has multiple character codes",
                                 "", "", page, 0)>>
                  ELSE <<>>)
            ELSE <<>>

\* a count of the pages that do have a node_type
WithoutNodeType_typed(disk, pages) ==
    Cardinality({i \in 1..Len(pages) :
        /\ PageExists(disk, pages[i])
        /\ disk.pages.files[pages[i]].kind = "map"
        /\ disk.pages.files[pages[i]].node_type # ""})

\* pages_with_node_type, pages_without_node_type
WithNodeType(disk, pages) ==
    Cardinality({i \in 1..Len(pages) :
        /\ PageExists(disk, pages[i])
        /\ disk.pages.files[pages[i]].kind = "map"
        /\ disk.pages.files[pages[i]].node_type # ""})

WithoutNodeType(disk, pages) ==
    Cardinality({i \in 1..Len(pages) :
        /\ PageExists(disk, pages[i])
        /\ disk.pages.files[pages[i]].kind = "map"
        /\ disk.pages.files[pages[i]].node_type = ""})

test_node_types(chars, disk, order) ==
    IF AnyStoryIsNone(chars) THEN Raised(<<>>)
    ELSE LET w == PageLoop(order, [i \in 1..Len(order) |-> NodeTypeOf(disk, order[i].s)])
             with == WithNodeType(disk, StrPrefix(order))
             without == WithoutNodeType(disk, StrPrefix(order))
             note == IF without > 0
                     THEN <<Note("page(s) don't have explicit node_type", without, 0)>>
                     ELSE <<>>
         IN IF w.raised THEN Raised(w.lines)
            ELSE IF HasError(w.lines) THEN Returned(w.lines \o note, FALSE)
            ELSE Returned(w.lines \o note
                          \o <<Success("All page node types are valid", with, without)>>,
                          TRUE)

\* Rule 9 (test_scene_structure), lines 377-385 for the scenes from the
\* i-th on: `in` on a scalar scene raises inside the try block
RECURSIVE ScenesFrom(_, _, _)
ScenesFrom(page, scenes, i) ==
    IF i > Len(scenes) THEN <<>>
    ELSE IF ~scenes[i].map
    THEN <<Error("Failed to check scene structure", "", "", page, 0, <<>>, "scene")>>
    ELSE (IF ~scenes[i].visual
          THEN <<Error("scene missing 'visual' field", "", "", page, i, <<>>, "")>>
          ELSE <<>>)
         \o
         (IF ~scenes[i].text
          THEN <<Error("scene missing 'text' field", "", "", page, i, <<>>, "")>>
          ELSE <<>>)
         \o
         (IF ~scenes[i].page
          THEN <<Warning("scene missing 'page' field", "", "", page, i)>>
          ELSE <<>>)
         \o ScenesFrom(page, scenes, i + 1)

\* a has_scenes that only a non-empty list makes true
HasScenes_list(page_data) ==
    page_data.scenes.kind = "list" /\ page_data.scenes.items # <<>>

\* has_scenes
HasScenes(page_data) ==
    /\ page_data.scenes.kind \in {"int", "list"}
    /\ page_data.scenes.kind = "list" => page_data.scenes.items # <<>>

\* a check that reports a page that is not there
SceneStructureOf_missing(disk, page) ==
    IF ~PageExists(disk, page)
    THEN <<Error("Failed to check scene structure", "", "", page, 0, <<>>, "missing")>>
    ELSE <<>>

\* lines 360-395 for one page
SceneStructureOf(disk, page) ==
    IF ~PageExists(disk, page) THEN <<>>
    ELSE LET page_data == disk.pages.files[page]
             scenes == page_data.scenes.items
         IN IF page_data.kind # "map"
            THEN <<Error("Failed to check scene structure", "", "", page, 0, <<>>, page_data.kind)>>
            ELSE IF HasScenes(page_data)
            THEN IF page_data.scenes.kind = "int"
                 THEN <<Error("Failed to check scene structure", "", "", page, 0, <<>>, "scenes")>>
                 ELSE (IF Len(scenes) # 2
                       THEN <<Warning("has n scenes, expected 2", "", "", page, Len(scenes))>>
                       ELSE <<>>)
                      \o ScenesFrom(page, scenes, 1)
            ELSE IF page_data.visual /\ page_data.text THEN <<>>
            ELSE <<Error("has neither scenes structure nor legacy visual/text fields",
                         "", "", page, 0, <<>>, "")>>

\* pages_with_scenes, pages_with_legacy
WithScenes(disk, pages) ==
    Cardinality({i \in 1..Len(pages) :
        /\ PageExists(disk, pages[i])
        /\ disk.pages.files[pages[i]].kind = "map"
        /\ HasScenes(disk.pages.files[pages[i]])})

WithLegacy(disk, pages) ==
    Cardinality({i \in 1..Len(pages) :
        /\ PageExists(disk, pages[i])
        /\ disk.pages.files[pages[i]].kind = "map"
        /\ ~HasScenes(disk.pages.files[pages[i]])
        /\ disk.pages.files[pages[i]].visual
        /\ disk.pages.files[pages[i]].text})

test_scene_structure(chars, disk, order) ==
    IF AnyStoryIsNone(chars) THEN Raised(<<>>)
    ELSE LET w == PageLoop(order, [i \in 1..Len(order) |->
                                      SceneStructureOf(disk, order[i].s)])
             note == <<Note("Page formats", WithScenes(disk, StrPrefix(order)),
                            WithLegacy(disk, StrPrefix(order)))>>
         IN IF w.raised THEN Raised(w.lines)
            ELSE IF HasError(w.lines) THEN Returned(w.lines \o note, FALSE)
            ELSE Returned(w.lines \o note
                          \o <<Success("All pages have valid content structure", 0, 0)>>,
                          TRUE)

-----------------------------------------------------------------------------
(* world.yaml.                                                             *)
(*   world        [kind, inters]: kind "absent", "invalid", "nonmap" (the  *)
(*                file parses to None) or "map"                            *)
(*   inters       [kind, items]: kind "falsy" (no 'interactions' key, or   *)
(*                an empty or null one), "int" (a scalar that cannot be    *)
(*                iterated) or "list"                                      *)
(*   interaction  [dict, chars, nodes]; chars and nodes are [list, items]  *)
(*   code         [hashable, v]: v "" for a falsy entry; hashable FALSE    *)
(*                for an entry (a list) that `in characters` cannot hash   *)
(*   node         [dict, spread, type, page_file]: spread 0 when absent;   *)
(*                type "" when falsy; page_file [kind, s] with kind        *)
(*                "none", "str" or "int"                                   *)

IsCharId(chars, v) == \E i \in 1..Len(chars) : chars[i].id = v

\* lines 437-440 for the codes from the i-th on
RECURSIVE CodesFrom(_, _, _)
CodesFrom(chars, codes, i) ==
    IF i > Len(codes) THEN Returned(<<>>, TRUE)
    ELSE LET char_code == codes[i]
         IN IF char_code.hashable /\ char_code.v = "" THEN CodesFrom(chars, codes, i + 1)
            ELSE IF ~char_code.hashable THEN Raised(<<>>)
            ELSE Then(Returned(IF ~IsCharId(chars, char_code.v)
                               THEN <<Error("Interaction references unknown character",
                                            "", "", <<>>, 0, <<>>, char_code.v)>>
                               ELSE <<>>, TRUE),
                      CodesFrom(chars, codes, i + 1))

InSoloSpreads(spread) ==
    \E i \in 1..Len(REQUIRED_SOLO_SPREADS) : REQUIRED_SOLO_SPREADS[i] = spread

\* lines 445-464 for one node
NodeOf(disk, node) ==
    IF ~node.dict THEN Returned(<<>>, TRUE)
    ELSE LET a == (IF InSoloSpreads(node.spread)
                   THEN <<Error("Node at spread violates constraint", "", "", <<>>,
                                node.spread, <<>>, "")>>
                   ELSE <<>>)
                  \o
                  (IF node.type # "" /\ node.type \notin VALID_NODE_TYPES
                   THEN <<Error("Node has invalid type", "", "", <<>>, 0, <<>>, node.type)>>
                   ELSE <<>>)
         IN IF node.page_file.kind = "none" THEN Returned(a, TRUE)
            ELSE IF node.page_file.kind = "int" THEN Raised(a)
            ELSE IF ~PageExists(disk, node.page_file.s)
            THEN Returned(a \o <<Error("Node references non-existent page", "", "",
                                       node.page_file.s, 0, <<>>, "")>>, TRUE)
            ELSE Returned(a, TRUE)

RECURSIVE NodesFrom(_, _, _)
NodesFrom(disk, nodes, i) ==
    IF i > Len(nodes) THEN Returned(<<>>, TRUE)
    ELSE Then(NodeOf(disk, nodes[i]), NodesFrom(disk, nodes, i + 1))

\* lines 429-464 for one interaction
InteractionOf(chars, disk, interaction) ==
    IF ~interaction.dict THEN Returned(<<>>, TRUE)
    ELSE Then(IF interaction.chars.list
              THEN CodesFrom(chars, interaction.chars.items, 1)
              ELSE Returned(<<>>, TRUE),
              IF interaction.nodes.list
              THEN NodesFrom(disk, interaction.nodes.items, 1)
              ELSE Returned(<<>>, TRUE))

RECURSIVE InteractionsFrom(_, _, _, _)
InteractionsFrom(chars, disk, inters, i) ==
    IF i > Len(inters) THEN Returned(<<>>, TRUE)
    ELSE Then(InteractionOf(chars, disk, inters[i]),
              InteractionsFrom(chars, disk, inters, i + 1))

\* a world rule that fails whatever it finds
test_world_interactions_strict(chars, disk) ==
    Returned(<<Error("Failed to load world.yaml", "", "", <<>>, 0, <<>>, "")>>, FALSE)

\* Rule 10
test_world_interactions(chars, disk) ==
    LET world == disk.world
    IN IF world.kind = "absent"
       THEN Returned(<<Warning("world.yaml not found", "", "", <<>>, 0)>>, TRUE)
       ELSE IF world.kind = "invalid"
       THEN Returned(<<Error("Failed to load world.yaml", "", "", <<>>, 0, <<>>, "")>>, FALSE)
       ELSE IF world.kind = "nonmap" THEN Raised(<<>>)
       ELSE IF world.inters.kind = "falsy"
       THEN Returned(<<Note("No interactions defined in world.yaml", 0, 0)>>, TRUE)
       ELSE IF world.inters.kind = "int" THEN Raised(<<>>)
       ELSE Finish(InteractionsFrom(chars, disk, world.inters.items, 1),
                   Success("World interactions are valid", 0, 0))

-----------------------------------------------------------------------------
(* main *)

NoRun == [ended |-> FALSE, exit |-> -1, lines |-> {}, results |-> <<>>, testlist |-> <<>>]

Range(s) == {s[i] : i \in 1..Len(s)}

PcOf(i) ==
    CASE i = 1 -> "t1" [] i = 2 -> "t2" [] i = 3 -> "t3" [] i = 4 -> "t4"
      [] i = 5 -> "t5" [] i = 6 -> "t6" [] i = 7 -> "t7" [] i = 8 -> "t8"
      [] i = 9 -> "t9" [] i = 10 -> "t10" [] OTHER -> "summary"

Banner == Line("print", "REPOSITORY STRUCTURE VALIDATION", "", "", <<>>, 0, <<>>, "")

\* the positions of the rules in the tests list of lines 485-496
TestOrder == [i \in 1..Len(tests) |-> i]

\* sync-jlfreif.py has not been started
NoSync ==
    [pc |-> "off", action |-> "", branch |-> "", cmds |-> <<>>, out |-> <<>>, ret |-> -1]

\* lines 478-482: a load that exits makes main return 1
Load ==
    /\ pc = "load"
    /\ LET r == load_all_characters(fs.chars)
       IN /\ out' = <<Banner>> \o r.lines
          /\ IF r.ok
             THEN /\ characters' = r.chars
                  /\ pc' = "t1"
                  /\ exit' = exit
             ELSE /\ characters' = <<>>
                  /\ pc' = "done"
                  /\ exit' = 1
    /\ UNCHANGED <<fs, run, results, first, testlist, sync>>

\* a pass of the loop that drops the first character after the rule
RunTest_forget(i, r) ==
    /\ out' = out \o <<Header(i)>> \o r.lines
    /\ pc' = IF r.raised THEN "crashed" ELSE PcOf(Len(results) + 2)
    /\ exit' = IF r.raised THEN 1 ELSE exit
    /\ results' = IF r.raised THEN results ELSE Append(results, r.ret)
    /\ characters' = IF characters = <<>> THEN <<>> ELSE Tail(characters)
    /\ UNCHANGED <<fs, run, first, testlist, sync>>

\* One pass of the loop of lines 499-503: the header, the rule, the append.
\* An exception the rule does not catch leaves main: the interpreter prints
\* the traceback and the process ends with status 1.
RunTest(i, r) ==
    /\ out' = out \o <<Header(i)>> \o r.lines
    /\ IF r.raised
       THEN /\ pc' = "crashed"
            /\ exit' = 1
            /\ results' = results
       ELSE /\ pc' = PcOf(Len(results) + 2)
            /\ exit' = exit
            /\ results' = Append(results, r.ret)
    /\ UNCHANGED <<fs, run, characters, first, testlist, sync>>

\* the loop of line 499 has reached the entry of the tests list that holds
\* the i-th rule
AtTest(i) ==
    /\ Len(results) < Len(testlist)
    /\ pc = PcOf(Len(results) + 1)
    /\ testlist[Len(results) + 1] = i

Test1 ==
    /\ AtTest(1)
    /\ RunTest(1, test_at_least_one_character(characters))

Test2 ==
    /\ AtTest(2)
    /\ RunTest(2, test_page_formatting(characters))

Test3 ==
    /\ AtTest(3)
    /\ RunTest(3, test_pages_exist(characters, fs))

Test4 ==
    /\ AtTest(4)
    /\ RunTest(4, test_no_overlaps_on_required_solo_spreads(characters))

Test5 ==
    /\ AtTest(5)
    /\ RunTest(5, test_no_stray_pages(characters, fs))

Test6 ==
    /\ AtTest(6)
    /\ \E order \in Orders(AllPages(characters)) :
          RunTest(6, test_page_yaml_validity(characters, fs, order))

Test7 ==
    /\ AtTest(7)
    /\ RunTest(7, test_missing_pages(characters))

Test8 ==
    /\ AtTest(8)
    /\ \E order \in Orders(AllPages(characters)) :
          RunTest(8, test_node_types(characters, fs, order))

Test9 ==
    /\ AtTest(9)
    /\ \E order \in Orders(AllPages(characters)) :
          RunTest(9, test_scene_structure(characters, fs, order))

Test10 ==
    /\ AtTest(10)
    /\ RunTest(10, test_world_interactions(characters, fs))

\* a summary that takes one passing test for success
AnyPass(rs) == \E i \in 1..Len(rs) : rs[i]

\* all(results)
AllPass(rs) == \A i \in 1..Len(rs) : rs[i]

\* a count of the tests that failed
Passed_failed(rs) == Cardinality({i \in 1..Len(rs) : ~rs[i]})

\* sum(results)
Passed(rs) == Cardinality({i \in 1..Len(rs) : rs[i]})

\* lines 505-520
Summary ==
    /\ pc = "summary"
    /\ LET passed == Passed(results)
           total == Len(results)
       IN IF AllPass(results)
          THEN /\ out' = out \o <<Success("All tests passed", total, 0)>>
               /\ exit' = 0
          ELSE /\ out' = out \o <<Error("out of tests failed", "", "", <<>>,
                                        total - passed, <<total>>, "")>>
               /\ exit' = 1
    /\ pc' = "done"
    /\ UNCHANGED <<fs, run, characters, results, first, testlist, sync>>

Ended == pc \in {"done", "crashed"}

\* the validator is started again over the same documents
Rerun ==
    /\ Ended
    /\ run = 1
    /\ first' = [ended |-> TRUE, exit |-> exit, lines |-> Range(out),
                 results |-> results, testlist |-> testlist]
    /\ run' = 2
    /\ pc' = "load"
    /\ characters' = <<>>
    /\ results' = <<>>
    /\ out' = <<>>
    /\ exit' = -1
    /\ UNCHANGED <<fs, testlist, sync>>

\* other orders of the tests list: the reverse, and the last rule first
OtherOrders == {Reverse(TestOrder), Rotate(TestOrder, Len(TestOrder) - 1)}

\* the validator is started again over the same documents, with the
\* entries of its tests list in another order
RerunReordered ==
    /\ Ended
    /\ run = 1
    /\ first' = [ended |-> TRUE, exit |-> exit, lines |-> Range(out),
                 results |-> results, testlist |-> testlist]
    /\ run' = 2
    /\ pc' = "load"
    /\ characters' = <<>>
    /\ results' = <<>>
    /\ out' = <<>>
    /\ exit' = -1
    /\ testlist' \in OtherOrders
    /\ UNCHANGED <<fs, sync>>

NextAnyOrder ==
    \/ Load
    \/ Test1 \/ Test2 \/ Test3 \/ Test4 \/ Test5
    \/ Test6 \/ Test7 \/ Test8 \/ Test9 \/ Test10
    \/ Summary
    \/ RerunReordered

Next ==
    \/ Load
    \/ Test1 \/ Test2 \/ Test3 \/ Test4 \/ Test5
    \/ Test6 \/ Test7 \/ Test8 \/ Test9 \/ Test10
    \/ Summary
    \/ Rerun

-----------------------------------------------------------------------------
(* The documents the model is run on.                                      *)

\* longest story drawn entry by entry from Entries
MaxShort == 2

\* longest numbered story
MaxStoryLen == 13

\* longest scenes list
MaxScenes == 2

\* file names
P_cu01 == <<"c", "u", "-", "0", "1">> \o DotYaml

P_em05 == <<"e", "m", "-", "0", "5">> \o DotYaml

P_joint == <<"c", "u", "-", "e", "m", "-", "1", "1">> \o DotYaml

P_pref == PagesPrefix \o <<"f", "o", "o", "-", "0", "1">> \o DotYaml

P_noext == <<"c", "u", "-", "0", "2">>

P_dot == DotYaml

P_bs == <<"a", "\\", "b">> \o DotYaml

PageNames == {P_cu01, P_em05, P_joint, P_pref, P_noext, P_dot, P_bs}

Entries == {Str(n) : n \in PageNames} \cup {NonStr(<<"1", "2">>)}

\* all sequences over S of length at most n
RECURSIVE SeqsUpTo(_, _)
SeqsUpTo(S, n) ==
    IF n = 0 THEN {<<>>}
    ELSE LET shorter == SeqsUpTo(S, n - 1)
         IN shorter \cup {Append(s, x) : s \in {q \in shorter : Len(q) = n - 1}, x \in S}

DigitChars == <<"0", "1", "2", "3", "4", "5", "6", "7", "8", "9">>

\* the two-digit form of i
Num2(i) == <<DigitChars[(i \div 10) + 1], DigitChars[(i % 10) + 1]>>

\* "em-NN.yaml" and "cu-em-NN.yaml"
Solo(i) == <<"e", "m", "-">> \o Num2(i) \o DotYaml

Joint(i) == <<"c", "u", "-", "e", "m", "-">> \o Num2(i) \o DotYaml

\* a story of n numbered pages whose spreads in J are joint pages
Numbered(n, J) ==
    ListStory([i \in 1..n |-> IF i \in J THEN Str(Joint(i)) ELSE Str(Solo(i))])

NumberedStories ==
    {Numbered(n, J) : n \in (MaxStoryLen - 2)..MaxStoryLen, J \in SUBSET {1, 5, 11, 12}}

ShortStories ==
    {NoStory, NullStory} \cup {ListStory(s) : s \in SeqsUpTo(Entries, MaxShort)}

MapDoc(id, attrs, name, story) ==
    [kind |-> "map", id |-> id, attrs |-> attrs, name |-> name, story |-> story]

BadDoc(kind) ==
    [kind |-> kind, id |-> "", attrs |-> "absent", name |-> "", story |-> NoStory]

F_cu == <<"c", "u">> \o DotYaml

F_em == <<"e", "m">> \o DotYaml

F_cu2 == <<"c", "u", "2">> \o DotYaml

F_template == TemplateWord \o DotYaml

F_example == <<"e", "m", "-">> \o ExampleWord \o DotYaml

F_notes == <<"n", "o", "t", "e", "s", ".", "t", "x", "t">>

CharFile(fname, doc) == [fname |-> fname, doc |-> doc]

CharsDir(files) == [exists |-> TRUE, files |-> files]

NoCharsDir == [exists |-> FALSE, files |-> <<>>]

GoodPage ==
    [kind |-> "map", node_type |-> "",
     scenes |-> [kind |-> "absent", items |-> <<>>], visual |-> TRUE, text |-> TRUE]

BadPage(kind) ==
    [kind |-> kind, node_type |-> "",
     scenes |-> [kind |-> "absent", items |-> <<>>], visual |-> FALSE, text |-> FALSE]

PagesDir(files) == [exists |-> TRUE, files |-> files]

NoPagesDir == [exists |-> FALSE, files |-> <<>>]

AllGood(names) == PagesDir([n \in names |-> GoodPage])

NoWorld == [kind |-> "absent", inters |-> [kind |-> "falsy", items |-> <<>>]]

Disk(chars, pages, world) == [chars |-> chars, pages |-> pages, world |-> world]

StoryNames(story) == {story.items[i].s : i \in 1..Len(story.items)}

\* One character file, every shape of document and short story, over a few
\* pages directories.
OneCharDocs ==
    {BadDoc("invalid"), BadDoc("nonmap"),
     MapDoc("", "map", "Nobody", ListStory(<<Str(P_cu01)>>)),
     MapDoc("cu", "null", "", ListStory(<<Str(P_cu01)>>)),
     MapDoc("cu", "absent", "", ListStory(<<Str(P_cu01)>>))}
    \cup {MapDoc("cu", "map", "Cullan", s) : s \in ShortStories}

FewPagesDirs ==
    {NoPagesDir, AllGood({}), AllGood({P_cu01}), AllGood({P_cu01, P_em05, P_joint}),
     AllGood({P_cu01, P_noext}), AllGood(PageNames)}

InputsOneChar ==
    {Disk(CharsDir(<<CharFile(F_cu, d)>>), p, NoWorld) :
        d \in OneCharDocs, p \in FewPagesDirs}

\* Up to two character files: skipped names, a file the glob does not
\* match, two files with the same id, a file without id.
SomeCharFiles ==
    {CharFile(F_cu, MapDoc("cu", "map", "Cullan", ListStory(<<Str(P_cu01), Str(P_joint)>>))),
     CharFile(F_em, MapDoc("em", "map", "Emer", ListStory(<<Str(P_em05), Str(P_joint)>>))),
     CharFile(F_cu2, MapDoc("cu", "map", "Cu Two", ListStory(<<Str(P_em05)>>))),
     CharFile(F_em, MapDoc("", "map", "Nobody", ListStory(<<Str(P_em05)>>))),
     CharFile(F_em, BadDoc("invalid")),
     CharFile(F_template, BadDoc("invalid")),
     CharFile(F_example, MapDoc("em", "map", "Emer", ListStory(<<Str(P_pref)>>))),
     CharFile(F_notes, BadDoc("invalid"))}

InputsCharFiles ==
    {Disk(CharsDir(fl), p, NoWorld) :
        fl \in {q \in SeqsUpTo(SomeCharFiles, 2) :
                   \A i, j \in 1..Len(q) : i # j => q[i].fname # q[j].fname},
        p \in {AllGood({P_cu01, P_em05, P_joint}), AllGood({P_cu01, P_joint})}}
    \cup {Disk(NoCharsDir, AllGood({P_cu01}), NoWorld)}

\* One character with a numbered story; every page it names exists, or all
\* but the last.
NumberedInput(s, p) ==
    Disk(CharsDir(<<CharFile(F_em, MapDoc("em", "map", "Emer", s))>>), p, NoWorld)

\* twelve pages numbered 2..13, and twelve pages without a number
Misnumbered == ListStory([i \in 1..ExpectedPages |-> Str(Solo(i + 1))])

Unnumbered ==
    ListStory([i \in 1..ExpectedPages |->
                  Str(<<"e", "m", "-", "p", DigitChars[(i % 10) + 1], "x">> \o DotYaml)])

InputsNumbered ==
    UNION {{NumberedInput(s, AllGood(StoryNames(s))),
            NumberedInput(s, AllGood(StoryNames(s) \ {s.items[Len(s.items)].s}))} :
           s \in NumberedStories \cup {Misnumbered, Unnumbered}}

\* Two characters that share a joint page, over page documents of every
\* shape.
TwoChars ==
    CharsDir(<<CharFile(F_cu, MapDoc("cu", "map", "Cullan",
                                     ListStory(<<Str(P_cu01), Str(P_joint)>>))),
               CharFile(F_em, MapDoc("em", "map", "Emer",
                                     ListStory(<<Str(P_em05), Str(P_joint)>>)))>>)

Page(node_type, scenes, visual, text) ==
    [kind |-> "map", node_type |-> node_type, scenes |-> scenes,
     visual |-> visual, text |-> text]

Scenes(kind, items) == [kind |-> kind, items |-> items]

Scene(visual, text, page) == [map |-> TRUE, visual |-> visual, text |-> text, page |-> page]

ScalarScene == [map |-> FALSE, visual |-> FALSE, text |-> FALSE, page |-> FALSE]

SceneSet ==
    {Scene(TRUE, TRUE, TRUE), Scene(TRUE, TRUE, FALSE), Scene(FALSE, TRUE, TRUE),
     Scene(TRUE, FALSE, TRUE), ScalarScene}

PageDocs ==
    {BadPage("invalid"), BadPage("nonmap")}
    \cup {Page(nt, Scenes("absent", <<>>), TRUE, TRUE) :
             nt \in VALID_NODE_TYPES \cup {"", "bogus"}}
    \cup {Page("", Scenes(k, <<>>), v, x) :
             k \in {"absent", "empty", "int"}, v \in BOOLEAN, x \in BOOLEAN}
    \cup {Page("", Scenes("list", s), FALSE, FALSE) :
             s \in SeqsUpTo(SceneSet, MaxScenes) \ {<<>>}}

FewPageDocs ==
    {GoodPage, BadPage("invalid"), BadPage("nonmap"),
     Page("meeting", Scenes("absent", <<>>), TRUE, TRUE),
     Page("solo", Scenes("absent", <<>>), TRUE, TRUE),
     Page("", Scenes("absent", <<>>), TRUE, FALSE)}

InputsPageDocs ==
    {Disk(TwoChars, PagesDir([n \in S |-> IF n = P_em05 THEN d1
                                          ELSE IF n = P_joint THEN d2 ELSE GoodPage]),
          NoWorld) :
        d1 \in PageDocs, d2 \in FewPageDocs,
        S \in {{P_em05, P_joint}, {P_em05, P_joint, P_cu01}}}

\* The two characters over good pages, and world documents of every shape.
Code(v) == [hashable |-> TRUE, v |-> v]

UnhashableCode == [hashable |-> FALSE, v |-> "[]"]

PageFile(kind, s) == [kind |-> kind, s |-> s]

Node(spread, type, page_file) ==
    [dict |-> TRUE, spread |-> spread, type |-> type, page_file |-> page_file]

NonDictNode ==
    [dict |-> FALSE, spread |-> 0, type |-> "", page_file |-> PageFile("none", <<>>)]

ListOf(items) == [list |-> TRUE, items |-> items]

NonList == [list |-> FALSE, items |-> <<>>]

Interaction(chars, nodes) == [dict |-> TRUE, chars |-> chars, nodes |-> nodes]

NonDictInteraction == [dict |-> FALSE, chars |-> NonList, nodes |-> NonList]

NodeSet ==
    {NonDictNode}
    \cup {Node(sp, ty, pf) :
             sp \in {0, 1, 5, 11, 12},
             ty \in {"", "meeting", "bogus"},
             pf \in {PageFile("none", <<>>), PageFile("str", P_joint),
                     PageFile("str", P_noext), PageFile("int", <<"7">>)}}

CodeSet == {Code("cu"), Code("zz"), Code(""), UnhashableCode}

InteractionSet ==
    {NonDictInteraction}
    \cup {Interaction(ListOf(<<Code("cu"), Code("em")>>), ns) :
             ns \in {NonList} \cup {ListOf(s) : s \in SeqsUpTo(NodeSet, 1)}}
    \cup {Interaction(cs, ListOf(<<Node(5, "meeting", PageFile("str", P_joint))>>)) :
             cs \in {NonList} \cup {ListOf(s) : s \in SeqsUpTo(CodeSet, 2)}}

FewInteractions ==
    {NonDictInteraction,
     Interaction(ListOf(<<Code("zz")>>), ListOf(<<>>)),
     Interaction(ListOf(<<Code("em")>>), ListOf(<<Node(11, "bogus", PageFile("none", <<>>))>>)),
     Interaction(ListOf(<<UnhashableCode>>), ListOf(<<>>)),
     Interaction(ListOf(<<>>), ListOf(<<Node(5, "", PageFile("int", <<"7">>))>>))}

World(kind, inters) == [kind |-> kind, inters |-> inters]

Worlds ==
    {World("invalid", [kind |-> "falsy", items |-> <<>>]),
     World("nonmap", [kind |-> "falsy", items |-> <<>>]),
     World("map", [kind |-> "falsy", items |-> <<>>]),
     World("map", [kind |-> "int", items |-> <<>>])}
    \cup {World("map", [kind |-> "list", items |-> <<x>>]) : x \in InteractionSet}
    \cup {World("map", [kind |-> "list", items |-> <<x, y>>]) :
             x \in FewInteractions, y \in FewInteractions}

InputsWorlds ==
    {Disk(TwoChars, AllGood({P_cu01, P_em05, P_joint}), w) : w \in Worlds}

Inputs ==
    InputsOneChar \cup InputsCharFiles \cup InputsNumbered
    \cup InputsPageDocs \cup InputsWorlds

-----------------------------------------------------------------------------
(* The specification: two runs of main over one unchanging set of          *)
(* documents.                                                              *)

Init ==
    /\ fs \in Inputs
    /\ run = 1
    /\ pc = "load"
    /\ characters = <<>>
    /\ results = <<>>
    /\ out = <<>>
    /\ exit = -1
    /\ first = NoRun
    /\ testlist = TestOrder
    /\ sync = NoSync

Spec == Init /\ [][Next]_vars

\* The same, the second run with its rules in another order.
SpecAnyOrder == Init /\ [][NextAnyOrder]_vars

-----------------------------------------------------------------------------
(* What the claims speak of *)

\* character loading succeeds on the documents on disk
LoadOk == load_all_characters(fs.chars).ok

IsHeader(l) == l.sev = "print" /\ l.kind = "Testing"

IsSummary(l) == l.kind \in {"All tests passed", "out of tests failed"}

\* the i-th rule has been started in this run
Executed(i) == \E k \in 1..Len(out) : out[k] = Header(i)

\* the i-th rule has returned in this run
HasReturned(i) == Len(results) >= i

HeaderPos(i) == CHOOSE k \in 1..Len(out) : out[k] = Header(i)

\* the lines printed by the i-th rule: those after its header, before the
\* next header and the summary
RuleLines(i) ==
    IF ~Executed(i) THEN <<>>
    ELSE LET from == HeaderPos(i)
             idx == {k \in 1..Len(out) :
                        /\ k > from
                        /\ ~IsSummary(out[k])
                        /\ \A j \in (from + 1)..k : ~IsHeader(out[j])}
         IN [k \in 1..Cardinality(idx) |-> out[from + k]]

SummaryPrinted == \E k \in 1..Len(out) : IsSummary(out[k])

\* the (character, entry) pairs of the loaded stories
Refs ==
    UNION {{<<i, j>> : j \in 1..Len(StoryItems(characters[i]))} :
           i \in 1..Len(characters)}

RefEntry(r) == StoryItems(characters[r[1]])[r[2]]

-----------------------------------------------------------------------------
\* C1: whenever character loading succeeds, the run ends with exit status 0
\* if and only if all ten rules returned true, and with status 1 otherwise.
C1_ExitStatus ==
    (Ended /\ LoadOk) =>
        /\ exit \in {0, 1}
        /\ exit = 0 <=> (Len(results) = 10 /\ \A i \in 1..10 : results[i])

\* a run whose ten rules all returned true
C1_Witness ==
    /\ Ended /\ LoadOk /\ exit = 0
    /\ Len(results) = 10

\* C2: a missing characters directory, no usable character file, or a usable
\* character file that does not parse to a mapping, ends the run with an
\* error line and exit status 1 before any rule is started.
UsableFiles == SelectSeq(GlobYaml(fs.chars.files), Usable)

LoadFailureCase ==
    \/ ~fs.chars.exists
    \/ UsableFiles = <<>>
    \/ \E i \in 1..Len(UsableFiles) : UsableFiles[i].doc.kind # "map"

C2_LoadFailureHalts ==
    (pc # "load" /\ LoadFailureCase) =>
        /\ pc = "done"
        /\ exit = 1
        /\ results = <<>>
        /\ \A i \in 1..10 : ~Executed(i)
        /\ ~SummaryPrinted
        /\ Len(out) = 2 /\ out[2].sev = "error"

\* the second of two usable files does not parse, after the first was loaded
C2_Witness ==
    /\ pc = "done" /\ exit = 1
    /\ Len(UsableFiles) = 2
    /\ UsableFiles[1].doc.kind = "map" /\ UsableFiles[1].doc.id # ""
    /\ UsableFiles[2].doc.kind = "invalid"

\* C3 (as claimed): whenever character loading succeeds, all ten rules are
\* executed and the summary is printed, whatever the documents hold.
C3_AllRulesRun ==
    (Ended /\ LoadOk) =>
        /\ pc = "done"
        /\ Len(results) = 10
        /\ \A i \in 1..10 : Executed(i)
        /\ SummaryPrinted

\* the referenced pages that exist, with their documents
ExistingRefDocs ==
    {fs.pages.files[RefEntry(r).s] :
        r \in {q \in Refs : RefEntry(q).str /\ PageExists(fs, RefEntry(q).s)}}

\* a scenes list every scene of which is a mapping with 'visual' and 'text'
ScenesComplete(d) ==
    /\ d.scenes.kind = "list" /\ d.scenes.items # <<>>
    /\ \A i \in 1..Len(d.scenes.items) :
          d.scenes.items[i].map /\ d.scenes.items[i].visual /\ d.scenes.items[i].text

HasLineOfKind(lines, sev, kind) ==
    \E k \in 1..Len(lines) : lines[k].sev = sev /\ lines[k].kind = kind

\* C4: the warning-only conditions never fail a rule.  The page count rule
\* returns true whatever the story lengths; the node-type rule returns true
\* when every page is unmarked or marked solo, whatever its file name; the
\* content rule returns true when every scene has 'visual' and 'text',
\* whatever the scene count and the 'page' tags; the world rule returns true
\* without world.yaml; and the exit status is 0 when every rule is true.
C4_WarningsNeverFail ==
    /\ HasReturned(7) => results[7]
    /\ (HasReturned(8) /\ \A d \in ExistingRefDocs :
                             d.kind = "map" /\ d.node_type \in {"", "solo"})
           => results[8]
    /\ (HasReturned(9) /\ \A d \in ExistingRefDocs :
                             /\ d.kind = "map"
                             /\ ScenesComplete(d)
                                \/ (~HasScenes(d) /\ d.visual /\ d.text))
           => results[9]
    /\ (HasReturned(10) /\ fs.world.kind = "absent") => results[10]
    /\ (pc = "done" /\ Len(results) = 10 /\ \A i \in 1..10 : results[i]) => exit = 0

\* one run with all five warnings that ends with status 0
C4_Witness ==
    /\ pc = "done" /\ exit = 0
    /\ HasLineOfKind(RuleLines(7), "warning", "Has n pages, expected 12")
    /\ HasLineOfKind(RuleLines(8), "warning",
                     "is marked as solo but has multiple character codes")
    /\ HasLineOfKind(RuleLines(9), "warning", "scene missing 'page' field")
    /\ HasLineOfKind(RuleLines(9), "warning", "has n scenes, expected 2")
    /\ HasLineOfKind(RuleLines(10), "warning", "world.yaml not found")

\* C5: a second run over the same documents ends with the exit status of
\* the first and prints the same set of lines.
C5_Idempotent ==
    (run = 2 /\ Ended) =>
        /\ first.ended
        /\ exit = first.exit
        /\ Range(out) = first.lines

\* a second run in which a rule that iterates a set printed two errors
C5_Witness ==
    /\ run = 2 /\ Ended
    /\ Cardinality({k \in 1..Len(out) :
                       out[k].sev = "error" /\ out[k].kind = "is not valid YAML"}) >= 2

\* the names of the headers printed so far, in order
HeaderNames ==
    LET hs == SelectSeq(out, IsHeader)
    IN [k \in 1..Len(hs) |-> hs[k].val]

IsPrefix(s, q) == Len(s) <= Len(q) /\ s = SubSeq(q, 1, Len(s))

KindsOf(lines) == {lines[k].kind : k \in 1..Len(lines)}

\* the order of the rules as the claim gives it: the page count rule sixth,
\* the page document validity rule seventh
ClaimedOrder ==
    <<"At least one character exists",
      "Page formatting is correct",
      "All referenced pages exist",
      "Spreads 1, 11, 12 are character-specific",
      "No stray pages in pages directory",
      "Check for missing pages",
      "Page YAML files are valid",
      "Node types are valid",
      "Scene structure is valid",
      "World interactions are valid">>

\* the same with the sixth and seventh exchanged
AmendedOrder ==
    [k \in 1..10 |-> IF k = 6 THEN ClaimedOrder[7]
                     ELSE IF k = 7 THEN ClaimedOrder[6] ELSE ClaimedOrder[k]]

\* C6 (as claimed): the rules are started in the order (1) non-empty
\* character set, (2) formatting, (3) existence, (4) solo spreads, (5) no
\* orphans, (6) page count, (7) page document validity, (8) node types,
\* (9) content structure, (10) world interactions.
C6_ClaimedOrder == IsPrefix(HeaderNames, ClaimedOrder)

\* C6 (amended): the order is fixed, with page document validity sixth and
\* page count seventh; the sixth rule prints the validity rule's lines and
\* the seventh the page count rule's.
C6_FixedOrder ==
    /\ IsPrefix(HeaderNames, AmendedOrder)
    /\ KindsOf(RuleLines(6)) \subseteq {"is not valid YAML", "All page YAML files are valid"}
    /\ KindsOf(RuleLines(7)) \subseteq
          {"Has n pages, expected 12", "Page numbering is", "All characters have 12 pages"}

\* all ten rules ran, the sixth reported an unparsable page and the seventh
\* a story length
C6_Witness ==
    /\ pc = "done" /\ Len(HeaderNames) = 10
    /\ HasLineOfKind(RuleLines(6), "error", "is not valid YAML")
    /\ HasLineOfKind(RuleLines(7), "warning", "Has n pages, expected 12")

\* the page references: the story entries that are strings
StrRefs == {r \in Refs : RefEntry(r).str}

\* the reference starts with 'pages/', does not end in '.yaml', or holds a
\* path separator
BadlyFormatted(s) ==
    \/ (Len(s) >= 6 /\ \A k \in 1..6 : s[k] = PagesPrefix[k])
    \/ ~(Len(s) >= 5 /\ \A k \in 1..5 : s[Len(s) - 5 + k] = DotYaml[k])
    \/ \E k \in 1..Len(s) : s[k] \in {"/", "\\"}

\* C7 (as claimed): the formatting rule returns false if and only if some
\* page reference starts with 'pages/', lacks '.yaml' or holds a separator.
C7_FormattingFailsIffBadRef ==
    Executed(2) =>
        ((HasReturned(2) /\ ~results[2]) <=> \E r \in StrRefs : BadlyFormatted(RefEntry(r).s))

\* ^[^/\\]+\.yaml$
MatchesBareName(s) ==
    /\ Len(s) >= 6
    /\ SubSeq(s, Len(s) - 4, Len(s)) = DotYaml
    /\ \A k \in 1..(Len(s) - 5) : s[k] \notin {"/", "\\"}

\* ^[^/\\]*\.yaml$
MatchesYamlName(s) ==
    /\ Len(s) >= 5
    /\ SubSeq(s, Len(s) - 4, Len(s)) = DotYaml
    /\ \A k \in 1..(Len(s) - 5) : s[k] \notin {"/", "\\"}

\* C8 (as claimed): the formatting rule passes exactly when every story
\* entry matches ^[^/\\]+\.yaml$.
C8_PassesIffBareNames ==
    Executed(2) =>
        ((HasReturned(2) /\ results[2])
            <=> \A r \in Refs : RefEntry(r).str /\ MatchesBareName(RefEntry(r).s))

\* C8 (amended): the formatting rule passes exactly when every story is
\* absent or a list of strings and every entry matches ^[^/\\]*\.yaml$:
\* the part before '.yaml' may be empty.
C8_PassesIffYamlNames ==
    Executed(2) =>
        ((HasReturned(2) /\ results[2])
            <=> /\ \A i \in 1..Len(characters) : characters[i].story.kind # "null"
                /\ \A r \in Refs : RefEntry(r).str /\ MatchesYamlName(RefEntry(r).s))

\* the rule passed a story that holds '.yaml'
C8_Witness ==
    /\ HasReturned(2) /\ results[2]
    /\ \E r \in Refs : RefEntry(r) = Str(DotYaml)

\* the references to pages that do not exist
MissingRefs == {r \in StrRefs : ~PageExists(fs, RefEntry(r).s)}

MissingLine(r) ==
    Error("Referenced page does not exist", characters[r[1]].id,
          characters[r[1]].name, RefEntry(r).s, 0, <<>>, "")

\* C9 (as claimed): the existence rule returns false if and only if some
\* referenced page is absent or the pages directory is missing, and every
\* missing reference is reported with the character's code and the name.
C9_EveryMissingRefReported ==
    Executed(3) =>
        /\ HasReturned(3)
        /\ ~results[3] <=> (~fs.pages.exists \/ MissingRefs # {})
        /\ \A r \in MissingRefs : MissingLine(r) \in Range(RuleLines(3))

\* C9 (amended): the same, except that without a pages directory the rule
\* prints the one line 'Pages directory not found' and no reference.
C9_MissingRefsReported ==
    Executed(3) =>
        /\ HasReturned(3)
        /\ ~results[3] <=> (~fs.pages.exists \/ MissingRefs # {})
        /\ fs.pages.exists =>
              \A r \in MissingRefs : MissingLine(r) \in Range(RuleLines(3))
        /\ ~fs.pages.exists =>
              RuleLines(3) = <<Error("Pages directory not found", "", "", <<>>, 0, <<>>, "")>>

\* character cu names a page that is not in the directory, next to one
\* that is
C9_Witness ==
    /\ HasReturned(3) /\ ~results[3]
    /\ fs.pages.exists
    /\ \E r \in MissingRefs : characters[r[1]].id = "cu"
    /\ \E r \in StrRefs \ MissingRefs : characters[r[1]].id = "cu"

\* the hyphen-delimited parts of a page name without its '.yaml' that are
\* two letters long
RECURSIVE CountCodes(_, _)
CountCodes(name, cur) ==
    IF name = <<>> THEN (IF Len(cur) = 2 /\ cur[1] \in Letters /\ cur[2] \in Letters
                         THEN <<cur>> ELSE <<>>)
    ELSE IF Head(name) = "-"
    THEN (IF Len(cur) = 2 /\ cur[1] \in Letters /\ cur[2] \in Letters
          THEN <<cur>> ELSE <<>>) \o CountCodes(Tail(name), <<>>)
    ELSE CountCodes(Tail(name), Append(cur, Head(name)))

CodesIn(page) ==
    CountCodes(IF MatchesYamlName(page) THEN SubSeq(page, 1, Len(page) - 5) ELSE page, <<>>)

\* the (character, position) pairs the solo-spread rule rejects
JointSolo ==
    {r \in Refs : r[2] \in {1, 11, 12} /\ Len(CodesIn(RefEntry(r).s)) > 1}

\* C10: the solo-spread rule returns false if and only if some story holds,
\* at position 1, 11 or 12, a name with more than one character code; it
\* prints one error for each such position, with the spread number and the
\* codes, and none for any other position.
C10_SoloSpreads ==
    Executed(4) =>
        /\ HasReturned(4)
        /\ ~results[4] <=> JointSolo # {}
        /\ {l \in Range(RuleLines(4)) : l.sev = "error"}
              = {Error("is a joint page", characters[r[1]].id, characters[r[1]].name,
                       RefEntry(r).s, r[2], CodesIn(RefEntry(r).s), "") : r \in JointSolo}

\* spread 11 of em is cu-em-11.yaml and the story has no spread 12
C10_Witness ==
    /\ HasReturned(4) /\ ~results[4]
    /\ \E i \in 1..Len(characters) :
          /\ characters[i].id = "em"
          /\ Len(StoryItems(characters[i])) = 11
          /\ StoryItems(characters[i])[11] = Str(Joint(11))
    /\ \E l \in Range(RuleLines(4)) :
          l.num = 11 /\ l.codes = <<<<"c", "u">>, <<"e", "m">>>>

\* C11 (as claimed): whenever the solo-spread rule passes, every story entry
\* at position 1, 11 or 12 holds exactly one 2-letter alphabetic
\* hyphen-delimited code.
C11_ExactlyOneCode ==
    (HasReturned(4) /\ results[4]) =>
        \A r \in Refs : r[2] \in {1, 11, 12} => Len(CodesIn(RefEntry(r).s)) = 1

\* C11 (amended): whenever the solo-spread rule passes, every story entry at
\* position 1, 11 or 12 holds at most one such code; it may hold none.
C11_AtMostOneCode ==
    (HasReturned(4) /\ results[4]) =>
        \A r \in Refs : r[2] \in {1, 11, 12} => Len(CodesIn(RefEntry(r).s)) <= 1

\* the rule passed a story of twelve or more entries, a joint page among
\* them at another position
C11_Witness ==
    /\ HasReturned(4) /\ results[4]
    /\ \E i \in 1..Len(characters) :
          /\ Len(StoryItems(characters[i])) >= 12
          /\ \A p \in {1, 11, 12} : Len(CodesIn(StoryItems(characters[i])[p].s)) = 1
          /\ Len(CodesIn(StoryItems(characters[i])[5].s)) = 2

\* the names directly in the pages directory
DirectFiles == {n \in DOMAIN fs.pages.files : \A k \in 1..Len(n) : n[k] # "/"}

\* the names the stories refer to
RefNames == {RefEntry(r).s : r \in StrRefs}

EndsInYaml(n) == Len(n) >= 5 /\ \A k \in 1..5 : n[Len(n) - 5 + k] = DotYaml[k]

Unreferenced == DirectFiles \ RefNames

UnreferencedYaml == {n \in Unreferenced : EndsInYaml(n)}

StrayLines == {l \in Range(RuleLines(5)) : l.sev = "info"}

\* C12 (as claimed): the no-orphan rule returns false if and only if some
\* file in the pages directory is referenced by no story (or the directory
\* is missing), and it lists every such file.
C12_FailsIffUnreferencedFile ==
    Executed(5) =>
        /\ HasReturned(5)
        /\ ~results[5] <=> (~fs.pages.exists \/ Unreferenced # {})
        /\ \A n \in Unreferenced : \E l \in StrayLines : l.page = n

\* C12 (amended): the no-orphan rule returns false if and only if some file
\* named *.yaml directly in the pages directory is referenced by no story
\* (or the directory is missing); it lists exactly those files, after one
\* error line with their count.  Other files in the directory are ignored.
C12_FailsIffUnreferencedYaml ==
    Executed(5) =>
        /\ HasReturned(5)
        /\ ~results[5] <=> (~fs.pages.exists \/ UnreferencedYaml # {})
        /\ {l.page : l \in StrayLines} = UnreferencedYaml
        /\ UnreferencedYaml # {} =>
              \E l \in Range(RuleLines(5)) :
                  l.sev = "error" /\ l.num = Cardinality(UnreferencedYaml)

\* em-05.yaml is on disk and in no story, next to a page that is referenced
C12_Witness ==
    /\ HasReturned(5) /\ ~results[5]
    /\ P_em05 \in UnreferencedYaml
    /\ RefNames \cap DirectFiles # {}
    /\ \E l \in StrayLines : l.page = P_em05

ExistingRefNames == {n \in RefNames : fs.pages.exists /\ n \in DOMAIN fs.pages.files}

PageDoc(n) == fs.pages.files[n]

\* the page cannot be read as a page document, or carries a node_type that
\* is not one of the four, or is a meeting page with fewer than two codes
NodeTypeFault(n) ==
    LET d == PageDoc(n)
    IN \/ d.kind # "map"
       \/ d.node_type # "" /\ d.node_type \notin {"solo", "meeting", "mirrored", "resonant"}
       \/ d.node_type = "meeting" /\ Len(CodesIn(n)) < 2

\* C14: the node-type rule returns false if and only if some referenced,
\* existing page cannot be read as a page document, has an explicit
\* node_type outside {solo, meeting, mirrored, resonant}, or has node_type
\* meeting while its name holds fewer than two character codes.  A page
\* "has an explicit node_type" as the rule's own report counts it: the
\* document holds a non-empty value under that key.
C14_NodeTypeRule ==
    Executed(8) =>
        /\ HasReturned(8)
        /\ ~results[8] <=> \E n \in ExistingRefNames : NodeTypeFault(n)

\* em-05.yaml is marked meeting and the rule fails citing the mismatch
C14_Witness ==
    /\ HasReturned(8) /\ ~results[8]
    /\ P_em05 \in ExistingRefNames
    /\ PageDoc(P_em05).node_type = "meeting"
    /\ \E l \in Range(RuleLines(8)) :
          /\ l.sev = "error" /\ l.page = P_em05
          /\ l.kind = "is marked as meeting node but has only one character code"

AllScenesComplete(d) ==
    \A i \in 1..Len(d.scenes.items) :
        d.scenes.items[i].map /\ d.scenes.items[i].visual /\ d.scenes.items[i].text

\* has_scenes as the claim defines it: a non-empty scenes list
NonEmptySceneList(d) == d.scenes.kind = "list" /\ d.scenes.items # <<>>

\* has_scenes as the rule computes it: any value that is not falsy
TruthyScenes(d) == d.scenes.kind = "int" \/ NonEmptySceneList(d)

WorldItems ==
    IF fs.world.kind = "map" /\ fs.world.inters.kind = "list"
    THEN fs.world.inters.items ELSE <<>>

LoadedIds == {characters[i].id : i \in 1..Len(characters)}

\* some interaction names a character code that is no loaded id
UnknownCode ==
    \E i \in 1..Len(WorldItems) :
        /\ WorldItems[i].dict /\ WorldItems[i].chars.list
        /\ \E k \in 1..Len(WorldItems[i].chars.items) :
              LET c == WorldItems[i].chars.items[k]
              IN c.hashable /\ c.v # "" /\ c.v \notin LoadedIds

\* some node has a type outside the four, sits at spread 1, 11 or 12, or
\* names a page file that does not exist
BadNode ==
    \E i \in 1..Len(WorldItems) :
        /\ WorldItems[i].dict /\ WorldItems[i].nodes.list
        /\ \E k \in 1..Len(WorldItems[i].nodes.items) :
              LET n == WorldItems[i].nodes.items[k]
              IN /\ n.dict
                 /\ \/ n.type # "" /\ n.type \notin {"solo", "meeting", "mirrored", "resonant"}
                    \/ n.spread \in {1, 11, 12}
                    \/ /\ n.page_file.kind = "str"
                       /\ ~(fs.pages.exists /\ n.page_file.s \in DOMAIN fs.pages.files)

\* C16 (as claimed): when a world file is present, the world rule returns
\* false if and only if some interaction names an unknown character code or
\* some node has an invalid type, sits at spread 1, 11 or 12, or names a
\* page file that does not exist.
C16_WorldFailsIffFault ==
    (Executed(10) /\ fs.world.kind # "absent") =>
        ((HasReturned(10) /\ ~results[10]) <=> (UnknownCode \/ BadNode))

\* C17: without a world file the world rule prints that it skips the check
\* and returns true, whatever the characters and the pages hold.
C17_NoWorldPasses ==
    (Executed(10) /\ fs.world.kind = "absent") =>
        /\ HasReturned(10) /\ results[10]
        /\ RuleLines(10) = <<Warning("world.yaml not found", "", "", <<>>, 0)>>

\* the rule passed without a world file in a run where the existence rule
\* and the content rule failed
C17_Witness ==
    /\ HasReturned(10) /\ results[10]
    /\ fs.world.kind = "absent"
    /\ ~results[3] /\ ~results[9]

\* the referenced pages that exist and do not parse
Unparsable == {n \in ExistingRefNames : PageDoc(n).kind = "invalid"}

\* C18: the page document validity rule returns false if and only if some
\* referenced page file does not parse; it prints one error for each such
\* file and none for a file that parses, whatever it parses to.
C18_ValidityRule ==
    Executed(6) =>
        /\ HasReturned(6)
        /\ ~results[6] <=> Unparsable # {}
        /\ {l.page : l \in {m \in Range(RuleLines(6)) : m.sev = "error"}} = Unparsable

\* the rule failed on one page that does not parse, next to a page that
\* parses to nothing
C18_Witness ==
    /\ HasReturned(6) /\ ~results[6]
    /\ Cardinality(Unparsable) = 1
    /\ \E n \in ExistingRefNames : PageDoc(n).kind = "nonmap"

\* the numbers the page count rule extracts from the i-th loaded story
NumbersOf(i) ==
    PageNumbers([j \in 1..Len(StoryItems(characters[i])) |-> StoryItems(characters[i])[j].s])

OneToTwelve == [k \in 1..12 |-> k]

\* the lines of the page count rule about the i-th character
LinesAbout(i, sev) ==
    {l \in Range(RuleLines(7)) : l.sev = sev /\ l.id = characters[i].id}

CountWarning(i) ==
    Warning("Has n pages, expected 12", characters[i].id, characters[i].name, <<>>,
            Len(StoryItems(characters[i])))

\* C19 (as claimed): the page count rule returns true, prints a warning for
\* every character whose story length is not 12 and a warning for every
\* character whose extracted numbers are not exactly 1..12.
C19_WarnsOnCountAndSequence ==
    Executed(7) =>
        /\ HasReturned(7) /\ results[7]
        /\ \A i \in 1..Len(characters) :
              /\ Len(StoryItems(characters[i])) # 12 => CountWarning(i) \in LinesAbout(i, "warning")
              /\ NumbersOf(i) # OneToTwelve => LinesAbout(i, "warning") # {}

\* C19 (amended): the page count rule returns true; it prints a warning for
\* exactly the characters whose story length is not 12, and an informational
\* line, not a warning, with the extracted numbers for exactly the characters
\* from whose page names some number was extracted and whose numbers are not
\* 1..12.
C19_WarnsOnCountNotesSequence ==
    Executed(7) =>
        /\ HasReturned(7) /\ results[7]
        /\ \A i \in 1..Len(characters) :
              /\ LinesAbout(i, "warning") =
                    IF Len(StoryItems(characters[i])) # 12 THEN {CountWarning(i)} ELSE {}
              /\ LinesAbout(i, "info") =
                    IF NumbersOf(i) # <<>> /\ NumbersOf(i) # OneToTwelve
                    THEN {Info("Page numbering is", characters[i].id, characters[i].name,
                               <<>>, NumbersOf(i))}
                    ELSE {}

\* a story of twelve pages numbered 2..13: a line about the numbering and no
\* warning
C19_Witness ==
    /\ HasReturned(7) /\ results[7]
    /\ \E i \in 1..Len(characters) :
          /\ Len(StoryItems(characters[i])) = 12
          /\ NumbersOf(i) = [k \in 1..12 |-> k + 1]
          /\ LinesAbout(i, "info") # {}
          /\ LinesAbout(i, "warning") = {}

\* word occurs in name
Holds(name, word) ==
    \E k \in 0..(Len(name) - Len(word)) : \A j \in 1..Len(word) : name[k + j] = word[j]

SkippedName(name) == Holds(name, TemplateWord) \/ Holds(name, ExampleWord)

\* the character files the loader does not skip by name
Remaining ==
    {i \in 1..Len(fs.chars.files) :
        EndsInYaml(fs.chars.files[i].fname) /\ ~SkippedName(fs.chars.files[i].fname)}

\* the record the loader builds from a character file
RecordOf(f) ==
    [id |-> f.doc.id, file |-> f.fname,
     name |-> IF f.doc.attrs = "map" THEN f.doc.name ELSE "Unknown",
     story |-> f.doc.story]

WithId == {i \in Remaining : fs.chars.files[i].doc.id # ""}

ErrorsAbout(i, n) == {l \in Range(RuleLines(i)) : l.sev = "error" /\ l.page = n}

\* C21 (as claimed): a rule that was started reports every violating item,
\* whatever precedes the item: every badly formatted reference of every
\* story, every scene that lacks 'visual' or 'text' (or is no mapping) of
\* every page with a scenes list, and every unknown character code of every
\* interaction gets at least one error line.
C21_EveryViolationReported ==
    /\ Executed(2) =>
          \A r \in StrRefs :
              BadlyFormatted(RefEntry(r).s) =>
                  \E l \in ErrorsAbout(2, RefEntry(r).s) : l.id = characters[r[1]].id
    /\ Executed(9) =>
          \A n \in ExistingRefNames :
              (PageDoc(n).kind = "map" /\ NonEmptySceneList(PageDoc(n))) =>
                  \A i \in 1..Len(PageDoc(n).scenes.items) :
                      LET scene == PageDoc(n).scenes.items[i]
                      IN ~(scene.map /\ scene.visual /\ scene.text) =>
                            \E l \in ErrorsAbout(9, n) :
                                \/ l.num = i
                                \/ ~scene.map /\ l.kind = "Failed to check scene structure"
    /\ Executed(10) =>
          \A i \in 1..Len(WorldItems) :
              (WorldItems[i].dict /\ WorldItems[i].chars.list) =>
                  \A k \in 1..Len(WorldItems[i].chars.items) :
                      LET c == WorldItems[i].chars.items[k]
                      IN (c.hashable /\ c.v # "" /\ c.v \notin LoadedIds) =>
                            \E l \in Range(RuleLines(10)) : l.sev = "error" /\ l.val = c.v

\* C22: the loaded character mapping is never changed during validation:
\* from the end of loading to the end of the run it is the mapping the
\* loader builds from the character files.
C22_CharactersFrozen ==
    pc # "load" => characters = load_all_characters(fs.chars).chars

\* a run of all ten rules over two loaded characters
C22_Witness ==
    /\ pc = "done" /\ Len(results) = 10
    /\ Len(characters) = 2
    /\ \A i \in 1..2 : StoryItems(characters[i]) # <<>>

\* the result the i-th rule returned in a run that went through the list
\* ord and ended with the results res: a set, empty when the rule returned
\* nothing
ResultOf(ord, res, i) ==
    {res[k] : k \in {j \in 1..Len(res) : ord[j] = i}}

\* C23 (as claimed): executing the ten rules in another order yields the
\* same result for every rule and the same exit status.
C23_SameResultsInAnyOrder ==
    (run = 2 /\ Ended) =>
        /\ exit = first.exit
        /\ \A i \in 1..10 :
              ResultOf(testlist, results, i) = ResultOf(first.testlist, first.results, i)

\* the referenced pages that exist and are mappings without a node_type
Untyped == {n \in ExistingRefNames : PageDoc(n).kind = "map" /\ PageDoc(n).node_type = ""}

\* C24: a page without explicit node_type gets no line of its own in the
\* node-type rule, neither error nor warning, and cannot make the rule
\* fail: the rule returns true when no referenced page has a node_type.
\* Such pages are only counted, in one note.
C24_UntypedIsInformational ==
    Executed(8) =>
        /\ HasReturned(8)
        /\ \A n \in Untyped : \A l \in Range(RuleLines(8)) : l.page # n
        /\ Untyped = ExistingRefNames => results[8]
        /\ {l \in Range(RuleLines(8)) : l.sev = "note"} =
              IF Untyped = {} THEN {}
              ELSE {Note("page(s) don't have explicit node_type", Cardinality(Untyped), 0)}

\* two pages without node_type were counted in a run of the rule that
\* failed on a third page
C24_Witness ==
    /\ HasReturned(8) /\ ~results[8]
    /\ Cardinality(Untyped) = 2
    /\ \E l \in Range(RuleLines(8)) : l.sev = "note" /\ l.num = 2

\* what the i-th rule prints over the loaded characters and the disk
LinesOfRule(i) ==
    CASE i = 1 -> test_at_least_one_character(characters).lines
      [] i = 2 -> test_page_formatting(characters).lines
      [] i = 3 -> test_pages_exist(characters, fs).lines
      [] i = 4 -> test_no_overlaps_on_required_solo_spreads(characters).lines
      [] i = 5 -> test_no_stray_pages(characters, fs).lines
      [] i = 6 -> test_page_yaml_validity(characters, fs, AllPages(characters)).lines
      [] i = 7 -> test_missing_pages(characters).lines
      [] i = 8 -> test_node_types(characters, fs, AllPages(characters)).lines
      [] i = 9 -> test_scene_structure(characters, fs, AllPages(characters)).lines
      [] OTHER -> test_world_interactions(characters, fs).lines

\* C25: the report is ordered.  The first line after the banner is the
\* first rule's header; the header of each rule is printed once, after the
\* header of the rule before it; the lines between a rule's header and the
\* next header (or the summary) are that rule's lines; the summary is the
\* last line and follows ten headers; and the failure summary gives the
\* number of rules that returned false out of the number of rules run.
C25_ReportOrdered ==
    /\ (LoadOk /\ Len(out) > 1) => out[2] = Header(1)
    /\ \A i \in 1..10 :
          Executed(i) =>
              /\ Cardinality({k \in 1..Len(out) : out[k] = Header(i)}) = 1
              /\ i > 1 => (Executed(i - 1) /\ HeaderPos(i - 1) < HeaderPos(i))
              /\ Range(RuleLines(i)) = Range(LinesOfRule(i))
    /\ SummaryPrinted =>
          /\ IsSummary(out[Len(out)])
          /\ \A k \in 1..(Len(out) - 1) : ~IsSummary(out[k])
          /\ Len(SelectSeq(out, IsHeader)) = 10
          /\ Len(results) = 10
          /\ LET last == out[Len(out)]
                 failed == Cardinality({i \in 1..10 : ~results[i]})
             IN IF failed = 0
                THEN last.sev = "success" /\ last.num = 10
                ELSE last.sev = "error" /\ last.num = failed /\ last.codes = <<10>>

\* the report of a run in which three of the ten rules failed
C25_Witness ==
    /\ pc = "done"
    /\ Cardinality({i \in 1..Len(results) : ~results[i]}) = 3
    /\ out[Len(out)].sev = "error" /\ out[Len(out)].num = 3

\* the line carries a character code, a file name or the offending value;
\* or its message names the one directory or file it is about; or, for the
\* stray pages, the names follow in lines of their own
CarriesContext(l) ==
    \/ l.id # "" \/ l.page # <<>> \/ l.val # ""
    \/ l.kind = "Node at spread violates constraint" /\ l.num # 0
    \/ l.kind \in {"Pages directory not found", "Failed to load world.yaml"}
    \/ l.kind = "Found stray page(s)"

\* C26 (as claimed): every error line of a rule that returned false carries
\* the character code, the file name or the offending value it is about.
C26_ErrorsCarryContext ==
    \A i \in 1..10 :
        (HasReturned(i) /\ ~results[i]) =>
            \A l \in Range(RuleLines(i)) : l.sev = "error" => CarriesContext(l)

\* the referenced names that are no file under the pages directory
MissingNames == RefNames \ ExistingRefNames

\* C27: a referenced page that does not exist gets a line in the existence
\* rule and none in the page document validity, node-type and content
\* rules; each of these three fails only with an error about a page that
\* exists, so it passes when every referenced page is missing.
C27_MissingPageSkipped ==
    /\ (HasReturned(3) /\ fs.pages.exists) => \A n \in MissingNames : ErrorsAbout(3, n) # {}
    /\ \A i \in {6, 8, 9} :
          Executed(i) =>
              /\ HasReturned(i)
              /\ \A n \in MissingNames : \A l \in Range(RuleLines(i)) : l.page # n
              /\ ~results[i] => \E n \in ExistingRefNames : ErrorsAbout(i, n) # {}
              /\ ExistingRefNames = {} => results[i]

\* one referenced page is missing, another exists; the existence rule
\* failed and the three page rules passed
C27_Witness ==
    /\ HasReturned(9)
    /\ MissingNames # {} /\ ExistingRefNames # {}
    /\ ~results[3]
    /\ results[6] /\ results[8] /\ results[9]

\* the errors of the except clauses of the node-type and content rules
FailedToCheck(i, n) ==
    {l \in ErrorsAbout(i, n) :
        l.kind \in {"Failed to check node_type", "Failed to check scene structure"}}

\* C28 (as claimed): a referenced page file the page document validity rule
\* accepts gets no 'Failed to check' error from the node-type and content
\* rules, and a page file it rejects makes both of them fail.
C28_RulesAgreeOnValidPage ==
    HasReturned(9) =>
        \A n \in ExistingRefNames :
            /\ ErrorsAbout(6, n) = {} => FailedToCheck(8, n) = {} /\ FailedToCheck(9, n) = {}
            /\ ErrorsAbout(6, n) # {} => ~results[8] /\ ~results[9]

\* the names a remaining character file lists in its story
StoryNamesOf(i) ==
    LET items == fs.chars.files[i].doc.story.items
    IN {items[k].s : k \in {j \in 1..Len(items) : items[j].str}}

\* C29 (as claimed): after a successful load every remaining character
\* file is covered by the reference rules: there is one record per file,
\* and each page a file's story names that is no file under the pages
\* directory is reported by the existence rule.
C29_EveryStoryCovered ==
    (LoadOk /\ HasReturned(3) /\ fs.pages.exists) =>
        /\ Len(characters) = Cardinality(Remaining)
        /\ \A i \in Remaining :
              \A n \in StoryNamesOf(i) : ~PageExists(fs, n) => ErrorsAbout(3, n) # {}

-----------------------------------------------------------------------------
(* sync-jlfreif.py *)

\* Python's None, next to the str values Str(s)
None == [str |-> FALSE, s |-> ""]

\* `if value:` on None or a str
Truthy(v) == v.str /\ v.s # ""

\* what a git command does: its exit code, the lines of its standard
\* output and its standard error
Outcome(code, lines, stderr) == [code |-> code, lines |-> lines, stderr |-> stderr]

\* a command exits 0 or not, with or without text on its standard error
Stderrs == {"", "fatal"}

Outcomes(stdouts) ==
    {Outcome(c, l, e) : c \in {0, 1}, l \in stdouts, e \in Stderrs}

\* str(e) of a CalledProcessError
StrOfError == "returned non-zero exit status"

\* run_command, lines 45-61: the pair (stdout, stderr) it returns
run_command(o, capture_output) ==
    IF o.code = 0
    THEN IF capture_output
         THEN [stdout |-> Str(o.lines), stderr |-> Str(o.stderr)]
         ELSE [stdout |-> None, stderr |-> None]
    ELSE [stdout |-> None,
          stderr |-> IF capture_output THEN Str(o.stderr) ELSE Str(StrOfError)]

\* the command line and the exit code of a command that was run
Issued(cmd, o) == [cmd |-> cmd, code |-> o.code]

SyncLine(sev, kind) == [sev |-> sev, kind |-> kind]

Actions == {"pull", "push"}

Branches == {<<>>, <<"main">>, <<"work">>}

Remotes == {<<>>, <<"origin">>, <<"jlfreif">>, <<"origin", "jlfreif">>}

\* lines 162-165: the function main calls after the remote is set up
ActionPc(action) == IF action = "pull" THEN "fetch" ELSE "push"

\* lines 169-174
Completed(action) == SyncLine("success", "operation completed successfully")

FailedLine(action) == SyncLine("error", "operation failed")

\* main, lines 145-149: the action is parsed and the banner printed
SyncStart ==
    /\ sync.pc = "off"
    /\ \E a \in Actions :
          sync' = [sync EXCEPT !.pc = "branch", !.action = a,
                               !.out = <<SyncLine("print", "SYNC WITH jlfreif/katheal")>>]
    /\ UNCHANGED <<fs, run, pc, characters, results, out, exit, first, testlist>>

\* get_current_branch, lines 63-69, and line 153
GetCurrentBranch ==
    /\ sync.pc = "branch"
    /\ \E o \in Outcomes(Branches) :
          LET r == run_command(o, TRUE)
              cmds == Append(sync.cmds, Issued("git branch --show-current", o))
          IN IF ~r.stdout.str
             THEN sync' = [sync EXCEPT !.pc = "done", !.cmds = cmds, !.ret = 1,
                               !.out = @ \o <<SyncLine("error", "Failed to get current branch")>>]
             ELSE sync' = [sync EXCEPT !.pc = "setup", !.cmds = cmds,
                               !.branch = IF r.stdout.s = <<>> THEN "" ELSE r.stdout.s[1],
                               !.out = @ \o <<SyncLine("info", "Current branch")>>]
    /\ UNCHANGED <<fs, run, pc, characters, results, out, exit, first, testlist>>

\* remote_exists, lines 71-77
remote_exists(r, remote_name) ==
    IF ~r.stdout.str THEN FALSE
    ELSE \E k \in 1..Len(r.stdout.s) : r.stdout.s[k] = remote_name

\* setup_remote, lines 81-85
RemoteExists ==
    /\ sync.pc = "setup"
    /\ \E o \in Outcomes(Remotes) :
          LET r == run_command(o, TRUE)
              cmds == Append(sync.cmds, Issued("git remote", o))
          IN IF remote_exists(r, "jlfreif")
             THEN sync' = [sync EXCEPT !.pc = ActionPc(sync.action), !.cmds = cmds,
                               !.out = @ \o <<SyncLine("info", "Remote 'jlfreif' already exists")>>]
             ELSE sync' = [sync EXCEPT !.pc = "add", !.cmds = cmds,
                               !.out = @ \o <<SyncLine("info", "Setting up remote 'jlfreif'")>>]
    /\ UNCHANGED <<fs, run, pc, characters, results, out, exit, first, testlist>>

\* line 88: `if stdout is None and stderr`
AddFailed(r) == ~r.stdout.str /\ Truthy(r.stderr)

\* setup_remote, lines 86-93, and lines 156-157 of main
RemoteAdd ==
    /\ sync.pc = "add"
    /\ \E o \in Outcomes({<<>>}) :
          LET r == run_command(o, TRUE)
              cmds == Append(sync.cmds, Issued("git remote add jlfreif", o))
          IN IF AddFailed(r)
             THEN sync' = [sync EXCEPT !.pc = "done", !.cmds = cmds, !.ret = 1,
                               !.out = @ \o <<SyncLine("error", "Failed to add remote")>>]
             ELSE sync' = [sync EXCEPT !.pc = ActionPc(sync.action), !.cmds = cmds,
                               !.out = @ \o <<SyncLine("success", "Remote 'jlfreif' added successfully")>>]
    /\ UNCHANGED <<fs, run, pc, characters, results, out, exit, first, testlist>>

\* pull_from_jlfreif, lines 97-104, and lines 169-174 of main
Fetch ==
    /\ sync.pc = "fetch"
    /\ \E o \in Outcomes({<<>>}) :
          LET r == run_command(o, FALSE)
              cmds == Append(sync.cmds, Issued("git fetch jlfreif", o))
          IN IF Truthy(r.stderr)
             THEN sync' = [sync EXCEPT !.pc = "done", !.cmds = cmds, !.ret = 1,
                               !.out = @ \o <<SyncLine("info", "Pulling from jlfreif/main"),
                                              SyncLine("info", "Fetching from jlfreif"),
                                              SyncLine("error", "Failed to fetch from jlfreif"),
                                              FailedLine(sync.action)>>]
             ELSE sync' = [sync EXCEPT !.pc = "pull", !.cmds = cmds,
                               !.out = @ \o <<SyncLine("info", "Pulling from jlfreif/main"),
                                              SyncLine("info", "Fetching from jlfreif")>>]
    /\ UNCHANGED <<fs, run, pc, characters, results, out, exit, first, testlist>>

\* pull_from_jlfreif, lines 107-114, and lines 169-174 of main
Pull ==
    /\ sync.pc = "pull"
    /\ \E o \in Outcomes({<<>>}) :
          LET r == run_command(o, FALSE)
              cmds == Append(sync.cmds, Issued("git pull jlfreif main", o))
          IN IF Truthy(r.stderr)
             THEN sync' = [sync EXCEPT !.pc = "done", !.cmds = cmds, !.ret = 1,
                               !.out = @ \o <<SyncLine("info", "Merging jlfreif/main"),
                                              SyncLine("error", "Failed to pull from jlfreif/main"),
                                              FailedLine(sync.action)>>]
             ELSE sync' = [sync EXCEPT !.pc = "done", !.cmds = cmds, !.ret = 0,
                               !.out = @ \o <<SyncLine("info", "Merging jlfreif/main"),
                                              SyncLine("success", "Successfully pulled from jlfreif/main"),
                                              Completed(sync.action)>>]
    /\ UNCHANGED <<fs, run, pc, characters, results, out, exit, first, testlist>>

\* push_to_jlfreif, lines 116-126, and lines 169-174 of main
Push ==
    /\ sync.pc = "push"
    /\ \E o \in Outcomes({<<>>}) :
          LET r == run_command(o, FALSE)
              cmds == Append(sync.cmds, Issued("git push jlfreif branch:main", o))
          IN IF Truthy(r.stderr)
             THEN sync' = [sync EXCEPT !.pc = "done", !.cmds = cmds, !.ret = 1,
                               !.out = @ \o <<SyncLine("info", "Pushing to jlfreif/main"),
                                              SyncLine("error", "Failed to push to jlfreif/main"),
                                              FailedLine(sync.action)>>]
             ELSE sync' = [sync EXCEPT !.pc = "done", !.cmds = cmds, !.ret = 0,
                               !.out = @ \o <<SyncLine("info", "Pushing to jlfreif/main"),
                                              SyncLine("success", "Successfully pushed to jlfreif/main"),
                                              Completed(sync.action)>>]
    /\ UNCHANGED <<fs, run, pc, characters, results, out, exit, first, testlist>>

NextSync ==
    \/ SyncStart
    \/ GetCurrentBranch
    \/ RemoteExists
    \/ RemoteAdd
    \/ Fetch
    \/ Pull
    \/ Push

\* the validator is not run
InitSync ==
    /\ fs = Disk(NoCharsDir, NoPagesDir, NoWorld)
    /\ run = 1
    /\ pc = "load"
    /\ characters = <<>>
    /\ results = <<>>
    /\ out = <<>>
    /\ exit = -1
    /\ first = NoRun
    /\ testlist = TestOrder
    /\ sync = NoSync

\* One run of sync-jlfreif.py.
SpecSync == InitSync /\ [][NextSync]_vars

\* the commands of the steps: adding the remote, fetch, pull, push
StepRank(cmd) ==
    CASE cmd = "git remote add jlfreif" -> 1
      [] cmd = "git fetch jlfreif" -> 2
      [] cmd = "git pull jlfreif main" -> 3
      [] cmd = "git push jlfreif branch:main" -> 3
      [] OTHER -> 0

StepsIssued == {k \in 1..Len(sync.cmds) : StepRank(sync.cmds[k].cmd) > 0}

\* the steps were issued in the order add, fetch, pull or add, push, after
\* the remotes were listed, and only those of the chosen action
StepsInOrder ==
    /\ \A j, k \in StepsIssued :
          j < k => StepRank(sync.cmds[j].cmd) < StepRank(sync.cmds[k].cmd)
    /\ \A k \in StepsIssued :
          /\ \E j \in 1..(k - 1) : sync.cmds[j].cmd = "git remote"
          /\ sync.cmds[k].cmd \in {"git fetch jlfreif", "git pull jlfreif main"}
                => sync.action = "pull"
          /\ sync.cmds[k].cmd = "git pull jlfreif main"
                => \E j \in 1..(k - 1) : sync.cmds[j].cmd = "git fetch jlfreif"
          /\ sync.cmds[k].cmd = "git push jlfreif branch:main" => sync.action = "push"

\* C30 (as claimed): the steps are issued in order; a step whose command
\* exits non-zero is the last command issued and makes main return 1; and
\* main returns 0 only if every step that was issued exited with 0.
C30_StopsAtFirstFailedStep ==
    /\ StepsInOrder
    /\ \A k \in StepsIssued :
          sync.cmds[k].code # 0 => k = Len(sync.cmds) /\ sync.pc = "done" /\ sync.ret = 1
    /\ (sync.pc = "done" /\ sync.ret = 0) => \A k \in StepsIssued : sync.cmds[k].code = 0

=============================================================================
